---------------------------- MODULE Spec2Model ----------------------------
(***************************************************************************)
(* Model of the shift-assignment engine of timeplan-manager                *)
(* (class ScheduleGenerator, src/src/lib/data-export.ts) and of the admin   *)
(* page that stores its results (src/unnamed/part_003).                     *)
(*                                                                         *)
(* Conventions                                                             *)
(*  - a clock time "HH:MM" is the pair <<HH, MM>>; timeToMinutes and        *)
(*    minutesToTime convert as the code does;                               *)
(*  - a duration the code holds in hours (a float) is held here in minutes, *)
(*    so 2h is 120, 0.5h is 30, 0.1h is 6, 4h is 240;                       *)
(*  - a date is the number of days since the Monday of week 0: the date of  *)
(*    day dayIndex of the week starting at weekStart is weekStart+dayIndex; *)
(*  - an absent optional value (patternId, freeSaturdayWeek) is "" or -1.   *)
(***************************************************************************)
EXTENDS Integers, Sequences, FiniteSets, TLC

VARIABLES
    pharmacists,      \* the roster handed to the generator (Pharmacist[])
    pharmacyRules,    \* the PharmacyRules handed to the generator
    scenario,         \* which input configuration this behaviour runs on
    schedules,        \* the schedule list the admin page stores
    pc,               \* position of the running generateSchedule call
    weekStart,        \* week being generated
    dayIndex,         \* generateWeekSchedule: loop variable
    retry,            \* generateWeekSchedule: retry loop variable
    shifts,           \* generateWeekSchedule: shifts of the days done so far
    patternUsage,     \* generateWeekSchedule: pharmacistId -> patternId -> count
    bestDayShifts,    \* generateWeekSchedule: best assignment of the day
    bestWarnings,     \* generateWeekSchedule: its warnings
    bestRetry,        \* generateWeekSchedule: the retry that produced it
    balance,          \* adjustPartTimeHours: loop state
    schedule,         \* generateSchedule: the week's schedule
    warnings,         \* generateSchedule: its warnings
    initial,          \* the week as generateWeekSchedule returned it, with its warnings
    resolver,         \* tryResolveWarnings: loop state
    runs,             \* number of generateSchedule calls made so far
    edits,            \* number of manual edits made so far
    steps,            \* number of steps the running generateSchedule call has taken
    vcalls,           \* validator specification: validateSchedule calls made
    vprev,            \* validator specification: result of the previous call
    rotation,         \* generateWeekScheduleWithRotation: the week built so far
    db                \* DataManager: the rows of the IndexedDB table db.schedules

vars == <<pharmacists, pharmacyRules, scenario, schedules, pc, weekStart, dayIndex,
          retry, shifts, patternUsage, bestDayShifts, bestWarnings, bestRetry,
          balance, schedule, warnings, initial, resolver, runs, edits, steps, vcalls, vprev,
          rotation, db>>

-----------------------------------------------------------------------------
(* Generic helpers                                                         *)

Min(a, b) == IF a < b THEN a ELSE b
Max(a, b) == IF a > b THEN a ELSE b
Abs(a) == IF a < 0 THEN -a ELSE a

Range(s) == {s[i] : i \in DOMAIN s}

RECURSIVE SumSeq(_)
SumSeq(s) == IF s = <<>> THEN 0 ELSE Head(s) + SumSeq(Tail(s))

\* the first index of s whose element satisfies Test, 0 when there is none
FirstIndex(s, Test(_)) ==
    IF \E i \in DOMAIN s : Test(s[i])
    THEN CHOOSE i \in DOMAIN s : Test(s[i]) /\ \A j \in 1..(i-1) : ~Test(s[j])
    ELSE 0

\* all orderings of the sequence s
Orderings(s) ==
    {p \in [DOMAIN s -> DOMAIN s] : \A i, j \in DOMAIN s : p[i] = p[j] => i = j}

Permuted(s, p) == [i \in DOMAIN s |-> s[p[i]]]

\* JavaScript's % takes the sign of the dividend
JsRem(a, b) == IF a >= 0 THEN a % b ELSE -((-a) % b)

-----------------------------------------------------------------------------
(* Time utilities                                                          *)

timeToMinutes(timeString) == timeString[1] * 60 + timeString[2]

minutesToTime(minutes) == <<minutes \div 60, JsRem(minutes, 60)>>

\* hours between two clock times, in minutes
calculateShiftHours(startTime, endTime) ==
    timeToMinutes(endTime) - timeToMinutes(startTime)

\* toFixed(1) of a number of hours, in tenths of an hour
toFixed1(mins) == IF mins >= 0 THEN (mins * 10 + 30) \div 60 ELSE -((-mins * 10 + 30) \div 60)

-----------------------------------------------------------------------------
(* Validator: validateSchedule                                             *)

dayNames == <<"Monday", "Tuesday", "Wednesday", "Thursday", "Friday", "Saturday">>

workdays == <<1, 2, 3, 4, 5, 6>>

\* this.pharmacists: the constructor keeps the active pharmacists
activePharmacists == SelectSeq(pharmacists, LAMBDA p : p.isActive)

\* pharmacist?.name || shift.pharmacistId
nameOf(pharmacistId) ==
    LET i == FirstIndex(activePharmacists, LAMBDA p : p.id = pharmacistId)
    IN  IF i > 0 /\ activePharmacists[i].name # "" THEN activePharmacists[i].name
        ELSE pharmacistId

NoTime == <<0, 0>>

\* the warning strings, by what they are built from
CoverageWarning(periodStart, periodEnd, minCount, required, reqStart, reqEnd) ==
    [kind |-> "Insufficient coverage", who |-> "", type |-> "",
     from |-> minutesToTime(periodStart), to |-> minutesToTime(periodEnd),
     n |-> minCount, of |-> required,
     reqFrom |-> minutesToTime(reqStart), reqTo |-> minutesToTime(reqEnd)]

ShortWarning(who, type, shiftHours) ==
    [kind |-> "Shift too short", who |-> who, type |-> type,
     from |-> NoTime, to |-> NoTime, n |-> toFixed1(shiftHours), of |-> 2,
     reqFrom |-> NoTime, reqTo |-> NoTime]

MaxShiftWarning(who, shiftHours, maxHours) ==
    [kind |-> "Shift exceeds max hours", who |-> who, type |-> "",
     from |-> NoTime, to |-> NoTime, n |-> toFixed1(shiftHours), of |-> maxHours,
     reqFrom |-> NoTime, reqTo |-> NoTime]

MaxDayWarning(who, totalHours, maxHours) ==
    [kind |-> "Daily hours exceeded", who |-> who, type |-> "",
     from |-> NoTime, to |-> NoTime, n |-> toFixed1(totalHours), of |-> maxHours,
     reqFrom |-> NoTime, reqTo |-> NoTime]

NoPeriod == [start |-> -1, end |-> -1, minCount |-> -1]

\* the size of pharmacistIdsWorking at checkTime
pharmacistsWorking(dayShifts, checkTime) ==
    Cardinality({dayShifts[i].pharmacistId : i \in
        {j \in DOMAIN dayShifts :
            /\ timeToMinutes(dayShifts[j].startTime) <= checkTime
            /\ timeToMinutes(dayShifts[j].endTime) > checkTime}})

\* the loop over checkTime, 30 minutes at a time
RECURSIVE scanRequirement(_, _, _, _, _, _)
scanRequirement(dayShifts, checkTime, reqEnd, required, currentPeriod, insufficientPeriods) ==
    IF ~(checkTime < reqEnd)
    THEN [currentPeriod |-> currentPeriod, insufficientPeriods |-> insufficientPeriods]
    ELSE LET working == pharmacistsWorking(dayShifts, checkTime)
             periodEnd == Min(checkTime + 30, reqEnd)
         IN  IF working < required
             THEN scanRequirement(dayShifts, checkTime + 30, reqEnd, required,
                      IF currentPeriod # NoPeriod
                      THEN [currentPeriod EXCEPT !.end = periodEnd,
                                                 !.minCount = Min(@, working)]
                      ELSE [start |-> checkTime, end |-> periodEnd, minCount |-> working],
                      insufficientPeriods)
             ELSE scanRequirement(dayShifts, checkTime + 30, reqEnd, required, NoPeriod,
                      IF currentPeriod # NoPeriod
                      THEN Append(insufficientPeriods, currentPeriod)
                      ELSE insufficientPeriods)

\* the scan without its last step: a period still open at reqEnd is left out
dropLastPeriod(scan, reqEnd) == scan.insufficientPeriods

\* "Don't forget the last period if it extends to the end"
closeLastPeriod(scan, reqEnd) ==
    IF scan.currentPeriod # NoPeriod
    THEN Append(scan.insufficientPeriods,
                [scan.currentPeriod EXCEPT !.end = Min(@, reqEnd)])
    ELSE scan.insufficientPeriods

\* the warnings one staffing requirement adds to dayWarnings
RECURSIVE reportPeriods(_, _, _, _)
reportPeriods(periods, reqStart, reqEnd, required) ==
    IF periods = <<>> THEN <<>>
    ELSE LET period == Head(periods)
             periodStart == Max(period.start, reqStart)
             periodEnd == Min(period.end, reqEnd)
         IN  (IF periodStart < periodEnd
              THEN <<CoverageWarning(periodStart, periodEnd, period.minCount, required,
                                     reqStart, reqEnd)>>
              ELSE <<>>)
             \o reportPeriods(Tail(periods), reqStart, reqEnd, required)

requirementWarnings(dayShifts, requirement) ==
    LET reqStart == timeToMinutes(requirement.startTime)
        reqEnd == timeToMinutes(requirement.endTime)
        required == requirement.requiredPharmacists
        scan == scanRequirement(dayShifts, reqStart, reqEnd, required, NoPeriod, <<>>)
    IN  reportPeriods(closeLastPeriod(scan, reqEnd), reqStart, reqEnd, required)

RECURSIVE coverageWarnings(_, _)
coverageWarnings(dayShifts, requirements) ==
    IF requirements = <<>> THEN <<>>
    ELSE requirementWarnings(dayShifts, Head(requirements))
         \o coverageWarnings(dayShifts, Tail(requirements))

\* the per-shift checks: minimum duration, maximum hours per shift
RECURSIVE shiftWarnings(_)
shiftWarnings(dayShifts) ==
    IF dayShifts = <<>> THEN <<>>
    ELSE LET shift == Head(dayShifts)
             shiftHours == calculateShiftHours(shift.startTime, shift.endTime)
         IN  (IF shift.type \in {"morning", "afternoon"} /\ shiftHours < 120
              THEN <<ShortWarning(nameOf(shift.pharmacistId), shift.type, shiftHours)>>
              ELSE <<>>)
             \o (IF shiftHours > pharmacyRules.maxHoursPerShift * 60
                 THEN <<MaxShiftWarning(nameOf(shift.pharmacistId), shiftHours,
                                        pharmacyRules.maxHoursPerShift)>>
                 ELSE <<>>)
             \o shiftWarnings(Tail(dayShifts))

\* the keys of pharmacistDailyHours, in insertion order
RECURSIVE dailyHoursKeys(_, _)
dailyHoursKeys(dayShifts, seen) ==
    IF dayShifts = <<>> THEN <<>>
    ELSE IF Head(dayShifts).pharmacistId \in seen
         THEN dailyHoursKeys(Tail(dayShifts), seen)
         ELSE <<Head(dayShifts).pharmacistId>>
              \o dailyHoursKeys(Tail(dayShifts), seen \cup {Head(dayShifts).pharmacistId})

pharmacistDailyHours(dayShifts, pharmacistId) ==
    SumSeq([i \in DOMAIN dayShifts |->
        IF dayShifts[i].pharmacistId = pharmacistId
        THEN calculateShiftHours(dayShifts[i].startTime, dayShifts[i].endTime)
        ELSE 0])

RECURSIVE dailyWarnings(_, _)
dailyWarnings(dayShifts, keys) ==
    IF keys = <<>> THEN <<>>
    ELSE LET totalHours == pharmacistDailyHours(dayShifts, Head(keys))
         IN  (IF totalHours > pharmacyRules.maxHoursPerDay * 60
              THEN <<MaxDayWarning(nameOf(Head(keys)), totalHours,
                                   pharmacyRules.maxHoursPerDay)>>
              ELSE <<>>)
             \o dailyWarnings(dayShifts, Tail(keys))

shiftsOn(allShifts, date) == SelectSeq(allShifts, LAMBDA s : s.date = date)

\* the dayWarnings of one date
dayWarningsOf(allShifts, date) ==
    LET dayShifts == shiftsOn(allShifts, date)
    IN  coverageWarnings(dayShifts, pharmacyRules.staffingRequirements)
        \o shiftWarnings(dayShifts)
        \o dailyWarnings(dayShifts, dailyHoursKeys(dayShifts, {}))

\* a day list that would start from the warnings the schedule already carries
staleDayWarnings(sched, date) ==
    IF date \in DOMAIN sched.warnings THEN sched.warnings[date] ELSE <<>>

\* "const dayWarnings: string[] = []"
freshDayWarnings(sched, date) == <<>>

\* the warnings map: the dates that have warnings, each with its list
validateSchedule(sched) ==
    LET dates == {sched.weekStart + (i - 1) : i \in DOMAIN workdays}
        listOf(d) == freshDayWarnings(sched, d) \o dayWarningsOf(sched.shifts, d)
        flagged == {d \in dates : Len(listOf(d)) > 0}
    IN  [d \in flagged |-> listOf(d)]

\* Object.values(warnings).reduce((sum, w) => sum + w.length, 0)
RECURSIVE warningCount(_)
warningCount(w) ==
    IF DOMAIN w = {} THEN 0
    ELSE LET d == CHOOSE x \in DOMAIN w : TRUE
         IN  Len(w[d]) + warningCount([x \in DOMAIN w \ {d} |-> w[x]])

\* a test that takes every week as one with warnings
warningsAssumed(w) == TRUE

\* Object.values(warnings).some(dayWarnings => dayWarnings.length > 0)
hasWarningsIn(w) == \E d \in DOMAIN w : Len(w[d]) > 0

-----------------------------------------------------------------------------
(* Input configurations                                                    *)

Pattern(id, ms, me, as, ae) ==
    [id |-> id, name |-> id,
     morningShift |-> [startTime |-> ms, endTime |-> me],
     afternoonShift |-> [startTime |-> as, endTime |-> ae]]

Requirement(st, en, n) == [startTime |-> st, endTime |-> en, requiredPharmacists |-> n]

Pharmacist(id, hours, freeDay, freeSat, active, fixed) ==
    [id |-> id, name |-> id, weeklyHours |-> hours, freeDay |-> freeDay,
     freeSaturdayWeek |-> freeSat, isActive |-> active, fixedDayPatterns |-> fixed]

Rules(open, close, bs, be, maxShift, maxDay, patterns, reqs) ==
    [openingTime |-> open, closingTime |-> close, breakStartTime |-> bs,
     breakEndTime |-> be, maxHoursPerShift |-> maxShift, maxHoursPerDay |-> maxDay,
     fixedShiftPatterns |-> patterns, staffingRequirements |-> reqs]

\* a fixed-day entry for every listed day
FixedOn(days, patternId) == [i \in DOMAIN days |-> [dayOfWeek |-> days[i], patternId |-> patternId]]

PatternA == Pattern("A", <<9, 0>>, <<12, 30>>, <<13, 0>>, <<17, 30>>)
PatternB == Pattern("B", <<11, 0>>, <<13, 0>>, <<14, 0>>, <<19, 30>>)
\* a pattern whose afternoon starts when its morning ends
PatternN == Pattern("N", <<9, 0>>, <<13, 0>>, <<13, 0>>, <<17, 30>>)
\* a pattern whose morning sub-shift lasts 1h30
PatternS == Pattern("S", <<11, 0>>, <<12, 30>>, <<14, 0>>, <<19, 30>>)
\* an early pattern whose morning sub-shift lasts 1h30
PatternE == Pattern("E", <<9, 0>>, <<10, 30>>, <<13, 0>>, <<17, 30>>)
\* a short afternoon that begins before the end of the break
PatternP == Pattern("P", <<10, 15>>, <<12, 30>>, <<13, 0>>, <<15, 30>>)
\* a late pattern without a break whose afternoon ends at closing time
PatternL == Pattern("L", <<11, 0>>, <<15, 0>>, <<15, 0>>, <<19, 30>>)

StdRules(patterns, reqs) ==
    Rules(<<9, 0>>, <<19, 30>>, <<12, 30>>, <<14, 0>>, 8, 10, patterns, reqs)

\* the days on which a worker is off, as FREE_DAY entries
MidWeekOff == FixedOn(<<"Tuesday", "Wednesday", "Thursday", "Friday">>, "FREE_DAY")

ScenarioIds == 1..7

\* the configurations of the second pipeline specification
NamedScenarioIds == {8, 9, 10, 11, 12, 14, 15, 16}

ScenarioPharmacists(sc) ==
    CASE sc = 1 ->   \* two fixed full-timers, one free rotating full-timer
           <<Pharmacist("w1", 40, "", -1, TRUE, FixedOn(dayNames, "S") \o MidWeekOff),
             Pharmacist("w2", 40, "", -1, TRUE, FixedOn(dayNames, "S")),
             Pharmacist("w3", 40, "", -1, TRUE, <<>>)>>
      [] sc = 2 ->   \* as 1, on a pattern without a break that ends before closing
           <<Pharmacist("w1", 40, "", -1, TRUE, FixedOn(dayNames, "N") \o MidWeekOff),
             Pharmacist("w2", 40, "", -1, TRUE, FixedOn(dayNames, "N")),
             Pharmacist("w3", 40, "", -1, TRUE, <<>>)>>
      [] sc = 3 ->   \* everybody on a fixed pattern
           <<Pharmacist("w1", 40, "", -1, TRUE, FixedOn(dayNames, "S") \o MidWeekOff),
             Pharmacist("w2", 40, "", -1, TRUE, FixedOn(dayNames, "S")),
             Pharmacist("w3", 40, "", -1, TRUE, FixedOn(dayNames, "S"))>>
      [] sc = 4 ->   \* a part-time worker, no staffing requirement
           <<Pharmacist("w1", 40, "", -1, TRUE, FixedOn(dayNames, "A")),
             Pharmacist("w2", 40, "", -1, TRUE, FixedOn(dayNames, "A")),
             Pharmacist("w3", 20, "Monday", -1, TRUE, <<>>)>>
      [] sc = 5 ->   \* free days, Saturday rotation, an inactive worker
           <<Pharmacist("w1", 40, "", -1, TRUE, FixedOn(dayNames, "A")),
             Pharmacist("w2", 40, "", -1, TRUE, FixedOn(dayNames, "B")),
             Pharmacist("w3", 30, "Wednesday", -1, TRUE,
                        FixedOn(<<"Monday", "Tuesday", "Thursday", "Friday">>, "A")
                        \o FixedOn(<<"Saturday">>, "FREE_DAY")),
             Pharmacist("w4", 40, "", 0, TRUE,
                        FixedOn(<<"Monday", "Wednesday", "Thursday", "Friday", "Saturday">>, "A")
                        \o FixedOn(<<"Tuesday">>, "FREE_DAY")),
             Pharmacist("w5", 40, "", -1, FALSE, <<>>),
             Pharmacist("w6", 40, "", -1, TRUE, <<>>)>>
      [] sc = 6 ->   \* fewer than three workers
           <<Pharmacist("w1", 40, "", -1, TRUE, <<>>),
             Pharmacist("w2", 20, "", -1, TRUE, <<>>)>>
      [] sc = 7 ->   \* no pattern defined
           <<Pharmacist("w1", 40, "", -1, TRUE, <<>>),
             Pharmacist("w2", 40, "", -1, TRUE, <<>>),
             Pharmacist("w3", 30, "", -1, TRUE, <<>>)>>
      [] sc = 8 ->   \* fixed entries that name a pattern the rules do not have
           <<Pharmacist("w1", 40, "", -1, TRUE, FixedOn(dayNames, "A") \o MidWeekOff),
             Pharmacist("w2", 40, "", -1, TRUE, FixedOn(dayNames, "A") \o MidWeekOff),
             Pharmacist("w3", 40, "", -1, TRUE, FixedOn(dayNames, "X")),
             Pharmacist("w4", 40, "", -1, TRUE, <<>>)>>
      [] sc = 9 ->   \* scenario A: three full-time workers on rotation
           <<Pharmacist("w1", 40, "", -1, TRUE, <<>>),
             Pharmacist("w2", 40, "", -1, TRUE, <<>>),
             Pharmacist("w3", 40, "", -1, TRUE, <<>>)>>
      [] sc = 10 ->  \* scenario B: a part-time worker whose free day is Sunday
           <<Pharmacist("w1", 40, "", -1, TRUE, FixedOn(dayNames, "A")),
             Pharmacist("w2", 40, "", -1, TRUE, FixedOn(dayNames, "A")),
             Pharmacist("w3", 20, "Sunday", -1, TRUE, <<>>)>>
      [] sc = 11 ->  \* one rotating worker, two patterns, no staffing requirement
           <<Pharmacist("w1", 40, "", -1, TRUE, FixedOn(dayNames, "S") \o MidWeekOff),
             Pharmacist("w2", 40, "", -1, TRUE, FixedOn(dayNames, "S")),
             Pharmacist("w3", 40, "", -1, TRUE, <<>>)>>
      [] sc = 12 ->  \* a part-time worker called in for a requirement over the break
           <<Pharmacist("w1", 40, "", -1, TRUE, FixedOn(dayNames, "B")),
             Pharmacist("w2", 40, "", -1, TRUE, FixedOn(dayNames, "B")),
             Pharmacist("w3", 20, "Wednesday", -1, TRUE, <<>>)>>
      [] sc = 13 ->  \* as 12 with Wednesday off for all, the part-time worker on 8 hours
           <<Pharmacist("w1", 40, "Wednesday", -1, TRUE, FixedOn(dayNames, "B")),
             Pharmacist("w2", 40, "Wednesday", -1, TRUE, FixedOn(dayNames, "B")),
             Pharmacist("w3", 8, "Wednesday", -1, TRUE, <<>>)>>
      [] sc = 14 ->  \* as 12, the three workers required at the end of the day
           <<Pharmacist("w1", 40, "", -1, TRUE, FixedOn(dayNames, "B")),
             Pharmacist("w2", 40, "", -1, TRUE, FixedOn(dayNames, "B")),
             Pharmacist("w3", 20, "Wednesday", -1, TRUE, <<>>)>>
      [] sc = 15 ->  \* an afternoon that begins in the break and ends soon after it
           <<Pharmacist("w1", 40, "", -1, TRUE, FixedOn(dayNames, "P")),
             Pharmacist("w2", 40, "", -1, TRUE, FixedOn(dayNames, "P")),
             Pharmacist("w3", 24, "", -1, TRUE, <<>>)>>
      [] sc = 16 ->  \* a part-time worker with more hours a day than the afternoon has
           <<Pharmacist("w1", 40, "", -1, TRUE, FixedOn(dayNames, "L")),
             Pharmacist("w2", 40, "", -1, TRUE, FixedOn(dayNames, "L")),
             Pharmacist("w3", 25, "Wednesday", -1, TRUE, <<>>)>>

ScenarioRules(sc) ==
    CASE sc = 1 -> StdRules(<<PatternS>>, <<>>)
      [] sc = 2 -> StdRules(<<PatternN>>, <<Requirement(<<13, 0>>, <<19, 30>>, 2)>>)
      [] sc = 3 -> StdRules(<<PatternS>>, <<>>)
      [] sc = 4 -> StdRules(<<PatternA>>, <<>>)
      [] sc = 5 -> Rules(<<9, 0>>, <<19, 30>>, <<12, 30>>, <<15, 30>>, 8, 10,
                         <<PatternA, PatternB>>,
                         <<Requirement(<<9, 0>>, <<12, 0>>, 2)>>)
      [] sc = 6 -> StdRules(<<PatternA, PatternB>>, <<Requirement(<<9, 0>>, <<19, 30>>, 2)>>)
      [] sc = 7 -> StdRules(<<>>, <<Requirement(<<9, 0>>, <<12, 0>>, 1)>>)
      [] sc = 8 -> StdRules(<<PatternA, PatternB>>,
                            <<Requirement(<<17, 30>>, <<19, 30>>, 1),
                              Requirement(<<9, 0>>, <<11, 0>>, 3)>>)
      [] sc = 9 -> StdRules(<<PatternA, PatternB>>, <<Requirement(<<9, 0>>, <<19, 30>>, 2)>>)
      [] sc = 10 -> StdRules(<<PatternA>>, <<>>)
      [] sc = 11 -> StdRules(<<PatternS, PatternE>>, <<>>)
      [] sc = 12 -> StdRules(<<PatternB>>, <<Requirement(<<12, 0>>, <<15, 0>>, 3)>>)
      [] sc = 13 -> StdRules(<<PatternB>>, <<Requirement(<<12, 0>>, <<15, 0>>, 3)>>)
      [] sc = 14 -> StdRules(<<PatternB>>, <<Requirement(<<17, 30>>, <<19, 30>>, 3)>>)
      [] sc = 15 -> StdRules(<<PatternP>>,
                             <<Requirement(<<14, 0>>, <<15, 30>>, 3),
                               Requirement(<<10, 15>>, <<12, 30>>, 3)>>)
      [] sc = 16 -> StdRules(<<PatternL>>, <<Requirement(<<17, 30>>, <<19, 30>>, 3)>>)

-----------------------------------------------------------------------------
(* Availability                                                            *)

isFreeDay(pharmacist, dayName) ==
    \/ pharmacist.freeDay = dayName
    \/ \E i \in DOMAIN pharmacist.fixedDayPatterns :
          /\ pharmacist.fixedDayPatterns[i].patternId = "FREE_DAY"
          /\ pharmacist.fixedDayPatterns[i].dayOfWeek = dayName

\* the availability filter without its Saturday-rotation test
availableIgnoringSaturday(dayName, weekNumber) ==
    SelectSeq(activePharmacists, LAMBDA ph : ph.isActive /\ ~isFreeDay(ph, dayName))

\* generateWeekSchedule, step 1
availableFirstPass(dayName, weekNumber) ==
    SelectSeq(activePharmacists, LAMBDA ph :
        /\ ph.isActive
        /\ ~isFreeDay(ph, dayName)
        /\ ~(dayName = "Saturday" /\ ph.freeSaturdayWeek = weekNumber))

patternById(patternId) ==
    LET ps == pharmacyRules.fixedShiftPatterns
        i == FirstIndex(ps, LAMBDA p : p.id = patternId)
    IN  IF i > 0 THEN <<ps[i]>> ELSE <<>>

\* ph.fixedDayPatterns?.find(p => p.dayOfWeek === dayName)
fixedEntry(ph, dayName) ==
    LET i == FirstIndex(ph.fixedDayPatterns, LAMBDA e : e.dayOfWeek = dayName)
    IN  IF i > 0 THEN <<ph.fixedDayPatterns[i]>> ELSE <<>>

\* generateWeekSchedule, step 2: the pattern a pharmacist is fixed to today, if any
fixedPatternFirstPass(ph, dayName) ==
    LET e == fixedEntry(ph, dayName)
    IN  IF e # <<>> /\ e[1].patternId # "FREE_DAY" THEN patternById(e[1].patternId) ELSE <<>>

-----------------------------------------------------------------------------
(* First-pass week generator: generateWeekSchedule                         *)

maxRetries == 50

Shift(pharmacistId, date, startTime, endTime, type, patternId) ==
    [id |-> <<"shift", date, pharmacistId, type>>,
     pharmacistId |-> pharmacistId, date |-> date, startTime |-> startTime,
     endTime |-> endTime, type |-> type, patternId |-> patternId]

patternIds == {pharmacyRules.fixedShiftPatterns[i].id : i \in DOMAIN pharmacyRules.fixedShiftPatterns}

\* the patternUsage map as generateWeekSchedule builds it
initialPatternUsage ==
    [id \in {activePharmacists[i].id : i \in DOMAIN activePharmacists} |->
        [pid \in patternIds |-> 0]]

usageOf(usage, phId, patternId) ==
    IF phId \in DOMAIN usage /\ patternId \in DOMAIN usage[phId]
    THEN usage[phId][patternId] ELSE 0

bumpUsage(usage, phId, patternId) ==
    [usage EXCEPT ![phId] =
        [pid \in DOMAIN @ \cup {patternId} |-> usageOf(usage, phId, pid) +
                                               (IF pid = patternId THEN 1 ELSE 0)]]

\* shuffledPatterns.reduce(...): the first least-used pattern
RECURSIVE leastUsedPattern(_, _, _, _)
leastUsedPattern(usage, phId, ps, min) ==
    IF ps = <<>> THEN min
    ELSE leastUsedPattern(usage, phId, Tail(ps),
            IF usageOf(usage, phId, Head(ps).id) < usageOf(usage, phId, min.id)
            THEN Head(ps) ELSE min)

\* no pattern to reduce over: Array.prototype.reduce throws a TypeError
reduceOfEmptyThrows(shuffledPatterns) == shuffledPatterns = <<>>

\* the pattern a rotating pharmacist gets in one retry; <<>> when reduce throws
assignedPattern(usage, phId, shuffledPatterns) ==
    LET i == FirstIndex(shuffledPatterns, LAMBDA pt : usageOf(usage, phId, pt.id) < 2)
    IN  IF i > 0 THEN <<shuffledPatterns[i]>>
        ELSE IF reduceOfEmptyThrows(shuffledPatterns) THEN <<>>
        ELSE <<leastUsedPattern(usage, phId, Tail(shuffledPatterns), Head(shuffledPatterns))>>

\* the morning and afternoon shift of a pattern, as the first pass creates them
patternShifts(phId, date, pattern) ==
    <<Shift(phId, date, pattern.morningShift.startTime, pattern.morningShift.endTime,
            "morning", pattern.id),
      Shift(phId, date, pattern.afternoonShift.startTime, pattern.afternoonShift.endTime,
            "afternoon", pattern.id)>>

RECURSIVE rotatedShifts(_, _, _, _)
rotatedShifts(usage, shuffledPharmacists, shuffledPatterns, date) ==
    IF shuffledPharmacists = <<>> THEN <<>>
    ELSE LET ph == Head(shuffledPharmacists)
         IN  patternShifts(ph.id, date, assignedPattern(usage, ph.id, shuffledPatterns)[1])
             \o rotatedShifts(usage, Tail(shuffledPharmacists), shuffledPatterns, date)

RECURSIVE rotatedUsage(_, _, _)
rotatedUsage(usage, shuffledPharmacists, shuffledPatterns) ==
    IF shuffledPharmacists = <<>> THEN usage
    ELSE LET ph == Head(shuffledPharmacists)
         IN  rotatedUsage(bumpUsage(usage, ph.id,
                                    assignedPattern(usage, ph.id, shuffledPatterns)[1].id),
                          Tail(shuffledPharmacists), shuffledPatterns)

RECURSIVE fixedShifts(_, _, _)
fixedShifts(fixedPharmacists, dayName, date) ==
    IF fixedPharmacists = <<>> THEN <<>>
    ELSE patternShifts(Head(fixedPharmacists).id, date,
                       fixedPatternFirstPass(Head(fixedPharmacists), dayName)[1])
         \o fixedShifts(Tail(fixedPharmacists), dayName, date)

RECURSIVE fixedUsage(_, _, _)
fixedUsage(usage, fixedPharmacists, dayName) ==
    IF fixedPharmacists = <<>> THEN usage
    ELSE fixedUsage(bumpUsage(usage, Head(fixedPharmacists).id,
                              fixedPatternFirstPass(Head(fixedPharmacists), dayName)[1].id),
                    Tail(fixedPharmacists), dayName)

\* shifts.filter(s => s.pharmacistId === ph.id && s.patternId === pattern.id).length
previousCount(doneShifts, phId, patternId) ==
    Len(SelectSeq(doneShifts, LAMBDA s : s.pharmacistId = phId /\ s.patternId = patternId))

\* the reset of patternUsage after a retry that left warnings
resetUsage(usage, remainingPharmacists, doneShifts) ==
    LET ids == {remainingPharmacists[i].id : i \in DOMAIN remainingPharmacists}
    IN  [id \in DOMAIN usage |->
            IF id \in ids
            THEN [pid \in DOMAIN usage[id] |->
                     IF pid \in patternIds THEN previousCount(doneShifts, id, pid)
                     ELSE usage[id][pid]]
            ELSE usage[id]]

\* the update of patternUsage from the day's selected shifts
RECURSIVE countDayPatterns(_, _, _)
countDayPatterns(usage, dayShifts, seen) ==
    IF dayShifts = <<>> THEN usage
    ELSE LET sh == Head(dayShifts)
             key == <<sh.pharmacistId, sh.patternId>>
         IN  IF sh.patternId = "" \/ key \in seen
             THEN countDayPatterns(usage, Tail(dayShifts), seen)
             ELSE countDayPatterns(bumpUsage(usage, sh.pharmacistId, sh.patternId),
                                   Tail(dayShifts), seen \cup {key})

\* validateSchedule(tempSchedule)[dateStr] || []
warningsFor(allShifts, start, date) ==
    IF date \in {start + (i - 1) : i \in DOMAIN workdays}
    THEN dayWarningsOf(allShifts, date) ELSE <<>>

-----------------------------------------------------------------------------
(* adjustPartTimeShiftsForWarnings                                         *)

partTimePharmacists == SelectSeq(activePharmacists, LAMBDA p : p.weeklyHours < 40)

\* warning.match(/(\d{2}:\d{2})-(\d{2}:\d{2})/): only a coverage warning carries a range
warningTimeMatch(warning) ==
    IF warning.kind = "Insufficient coverage" THEN <<warning.from, warning.to>> ELSE <<>>

\* the shifts the other workers have on a date
indexesOfOthers(list, phId, date) ==
    SelectSeq([i \in DOMAIN list |-> i],
              LAMBDA i : list[i].pharmacistId # phId /\ list[i].date = date)

indexesOf(list, phId, date) ==
    SelectSeq([i \in DOMAIN list |-> i],
              LAMBDA i : list[i].pharmacistId = phId /\ list[i].date = date)

\* phShifts.forEach(shift => ...) for one pharmacist and one warning range
RECURSIVE adjustForRange(_, _, _, _, _)
adjustForRange(list, phShifts, todo, reqStart, reqEnd) ==
    IF todo = <<>> THEN list
    ELSE LET k == Head(todo)
             shift == list[k]
             shiftEnd == timeToMinutes(shift.endTime)
             aft == FirstIndex(phShifts, LAMBDA i : list[i].type = "afternoon")
             newEnd == Min(reqEnd, timeToMinutes(pharmacyRules.closingTime))
             newStart == Max(reqStart, timeToMinutes(pharmacyRules.breakEndTime))
             next ==
                IF shift.type = "afternoon" /\ shiftEnd < reqEnd /\ shiftEnd >= reqStart
                THEN IF newEnd > shiftEnd
                     THEN [list EXCEPT ![k].endTime = minutesToTime(newEnd)]
                     ELSE list
                ELSE IF shift.type = "morning" /\ shiftEnd <= reqStart /\ aft > 0
                     THEN IF newStart < timeToMinutes(list[phShifts[aft]].startTime)
                          THEN [list EXCEPT ![phShifts[aft]].startTime = minutesToTime(newStart)]
                          ELSE list
                     ELSE list
         IN  adjustForRange(next, phShifts, Tail(todo), reqStart, reqEnd)

RECURSIVE adjustForPharmacists(_, _, _, _, _)
adjustForPharmacists(list, phs, date, reqStart, reqEnd) ==
    IF phs = <<>> THEN list
    ELSE LET phShifts == indexesOf(list, Head(phs).id, date)
         IN  adjustForPharmacists(adjustForRange(list, phShifts, phShifts, reqStart, reqEnd),
                                  Tail(phs), date, reqStart, reqEnd)

RECURSIVE adjustPartTimeShiftsForWarnings(_, _, _)
adjustPartTimeShiftsForWarnings(dayShifts, date, ws) ==
    IF ws = <<>> THEN dayShifts
    ELSE LET m == warningTimeMatch(Head(ws))
         IN  adjustPartTimeShiftsForWarnings(
                 IF m = <<>> THEN dayShifts
                 ELSE adjustForPharmacists(dayShifts, partTimePharmacists, date,
                                           timeToMinutes(m[1]), timeToMinutes(m[2])),
                 date, Tail(ws))

-----------------------------------------------------------------------------
(* Hour Balancer: adjustPartTimeHours                                      *)

Infinity == 1000000

hoursOf(list, idxs) ==
    SumSeq([i \in DOMAIN idxs |->
               calculateShiftHours(list[idxs[i]].startTime, list[idxs[i]].endTime)])

phIndexes(list, phId) ==
    SelectSeq([i \in DOMAIN list |-> i], LAMBDA i : list[i].pharmacistId = phId)

\* the sorted distinct dates of a pharmacist's shifts
RECURSIVE SortedSeq(_)
SortedSeq(S) ==
    IF S = {} THEN <<>>
    ELSE LET m == CHOOSE x \in S : \A y \in S : x <= y
         IN  <<m>> \o SortedSeq(S \ {m})

workingDaysOf(list, phId) == SortedSeq({list[i].date : i \in Range(phIndexes(list, phId))})

\* totalHours - targetHours of a pharmacist
extraHoursOf(list, ph) == hoursOf(list, phIndexes(list, ph.id)) - ph.weeklyHours * 60

\* the removal options of one day, in the order the code builds them;
\* each is the shift it edits, the field it edits and the new clock time
removalOptions(list, dayShifts, hoursToRemoveThisRound, remainingExtra) ==
    LET m == FirstIndex(dayShifts, LAMBDA i : list[i].type = "morning")
        a == FirstIndex(dayShifts, LAMBDA i : list[i].type = "afternoon")
        aS == list[dayShifts[a]]
        mS == list[dayShifts[m]]
        aHours == calculateShiftHours(aS.startTime, aS.endTime)
        aNew == Max(120, aHours - hoursToRemoveThisRound)
        mHours == calculateShiftHours(mS.startTime, mS.endTime)
        mNew == Max(120, mHours - Min(hoursToRemoveThisRound, remainingExtra))
    IN  (IF a > 0 /\ aHours - aNew > 0
         THEN <<[name |-> "afternoon-end", shift |-> dayShifts[a], field |-> "endTime",
                 time |-> minutesToTime(timeToMinutes(aS.startTime) + aNew)],
                [name |-> "afternoon-start", shift |-> dayShifts[a], field |-> "startTime",
                 time |-> minutesToTime(Max(timeToMinutes(pharmacyRules.breakEndTime),
                                            timeToMinutes(aS.endTime) - aNew))]>>
         ELSE <<>>)
        \o
        (IF m > 0 /\ remainingExtra > 6 /\ mHours - mNew > 0
         THEN <<[name |-> "morning-end", shift |-> dayShifts[m], field |-> "endTime",
                 time |-> minutesToTime(timeToMinutes(mS.startTime) + mNew)],
                [name |-> "morning-start", shift |-> dayShifts[m], field |-> "startTime",
                 time |-> minutesToTime(Max(timeToMinutes(pharmacyRules.openingTime),
                                            timeToMinutes(mS.endTime) - mNew))]>>
         ELSE <<>>)

applyOption(list, option) ==
    IF option.field = "endTime"
    THEN [list EXCEPT ![option.shift].endTime = option.time]
    ELSE [list EXCEPT ![option.shift].startTime = option.time]

NoOption == [option |-> 0, warningCount |-> Infinity, reduction |-> 0]

\* the body of "for (const option of options)": what bestOption is after option i
\* gave count warnings and actualReduction
betterOption(best, i, count, actualReduction) ==
    IF count = 0 /\ actualReduction > 0
    THEN IF actualReduction > best.reduction \/ best.option = 0
         THEN [option |-> i, warningCount |-> 0, reduction |-> actualReduction]
         ELSE best
    ELSE IF \/ count < best.warningCount
            \/ (count = best.warningCount /\ actualReduction > best.reduction)
         THEN [option |-> i, warningCount |-> count, reduction |-> actualReduction]
         ELSE best

\* the choice among the options: the loop "for (const option of options)"
RECURSIVE chooseOption(_, _, _, _, _, _, _, _)
chooseOption(list, options, i, dayShifts, date, dayTotalHours, hoursToRemoveThisRound, best) ==
    IF i > Len(options) THEN best
    ELSE chooseOption(list, options, i + 1, dayShifts, date, dayTotalHours,
                      hoursToRemoveThisRound,
                      betterOption(best, i,
                          Len(warningsFor(applyOption(list, options[i]), weekStart, date)),
                          Min(dayTotalHours - hoursOf(applyOption(list, options[i]), dayShifts),
                              hoursToRemoveThisRound)))

\* "if (bestOption) { apply it } processedDays.add(dateStr)"
takeOption(st, date, options, best) ==
    IF best.option > 0
    THEN [st EXCEPT !.list = applyOption(@, options[best.option]),
                    !.remainingExtra = @ - best.reduction,
                    !.processedDays = @ \cup {date}]
    ELSE [st EXCEPT !.processedDays = @ \cup {date}]

\* the body of workingDays.forEach for one date, given the day's shifts and options
balanceDay(st, date, dayShifts, dayTotalHours, options, hoursToRemoveThisRound) ==
    IF date \in st.processedDays \/ st.remainingExtra <= 6 THEN st
    ELSE IF dayTotalHours - hoursToRemoveThisRound < 240
         THEN [st EXCEPT !.processedDays = @ \cup {date}]
         ELSE takeOption(st, date, options,
                         chooseOption(st.list, options, 1, dayShifts, date, dayTotalHours,
                                      hoursToRemoveThisRound, NoOption))

balanceDayShifts(st, date, dayShifts, hoursToRemoveThisRound) ==
    balanceDay(st, date, dayShifts, hoursOf(st.list, dayShifts),
               removalOptions(st.list, dayShifts, hoursToRemoveThisRound, st.remainingExtra),
               hoursToRemoveThisRound)

\* workingDays.forEach(dateStr => ...): one round of the while loop
RECURSIVE balanceRound(_, _, _, _)
balanceRound(st, ph, days, hoursToRemoveThisRound) ==
    IF days = <<>> THEN st
    ELSE balanceRound(balanceDayShifts(st, Head(days), indexesOf(st.list, ph.id, Head(days)),
                                       hoursToRemoveThisRound),
                      ph, Tail(days), hoursToRemoveThisRound)

\* the condition of the while loop
balanceContinues(remainingExtra, processedDays, daysCount) ==
    remainingExtra > 6 /\ Cardinality(processedDays) < daysCount

-----------------------------------------------------------------------------
(* Rotation path: getAvailablePharmacists                                  *)

\* Array.prototype.sort with a comparator that is a total preorder: stable
StableSort(s, Before(_, _)) ==
    LET rank(i) == Cardinality({j \in DOMAIN s :
                       Before(s[j], s[i]) \/ (~Before(s[i], s[j]) /\ j < i)})
    IN  [k \in DOMAIN s |-> s[CHOOSE i \in DOMAIN s : rank(i) = k - 1]]

dayOrder == <<"Monday", "Tuesday", "Wednesday", "Thursday", "Friday", "Saturday", "Sunday">>

\* dayOrder.indexOf(name)
indexOfDay(name) == FirstIndex(dayOrder, LAMBDA d : d = name) - 1

\* a.freeDay || a.fixedDayPatterns?.find(p => p.patternId === 'FREE_DAY')?.dayOfWeek || 'Monday'
freeDayOrMonday(ph) ==
    LET i == FirstIndex(ph.fixedDayPatterns, LAMBDA e : e.patternId = "FREE_DAY")
    IN  IF ph.freeDay # "" THEN ph.freeDay
        ELSE IF i > 0 /\ ph.fixedDayPatterns[i].dayOfWeek # ""
             THEN ph.fixedDayPatterns[i].dayOfWeek
             ELSE "Monday"

freeDayDistance(ph, dayName) == Abs(indexOfDay(freeDayOrMonday(ph)) - indexOfDay(dayName))

\* the filter of getAvailablePharmacists; ledger is weeklyHours, in minutes
isAvailable(ph, dayName, weekNumber, ledger) ==
    /\ ~isFreeDay(ph, dayName)
    /\ ~(dayName = "Saturday" /\ ph.freeSaturdayWeek = weekNumber)
    /\ ph.weeklyHours >= 40 =>
          LET daysWorked == (ph.weeklyHours * 60 - ledger[ph.id]) \div 480
              daysLeft == 5 - daysWorked
          IN  ~(daysLeft <= 0) /\ ~(ledger[ph.id] < 480)

getAvailablePharmacists(dayName, weekNumber, ledger) ==
    StableSort(SelectSeq(activePharmacists,
                         LAMBDA ph : isAvailable(ph, dayName, weekNumber, ledger)),
               LAMBDA a, b : freeDayDistance(a, dayName) > freeDayDistance(b, dayName))

-----------------------------------------------------------------------------
(* Rotation path: coverage tracker and pattern scores                      *)

requirements == pharmacyRules.staffingRequirements

\* the tracker key `${req.startTime}-${req.endTime}`
reqKey(req) == <<req.startTime, req.endTime>>

reqDuration(key) == timeToMinutes(key[2]) - timeToMinutes(key[1])

\* how many requirements write to one key
keyCount(key) == Cardinality({i \in DOMAIN requirements : reqKey(requirements[i]) = key})

\* A tracker entry is a number of pharmacists, possibly fractional; it is held
\* here as covered minutes, that is multiplied by the requirement's duration.
createCoverageTracker ==
    [k \in {reqKey(requirements[i]) : i \in DOMAIN requirements} |-> 0]

overlapMinutes(start, end, reqStart, reqEnd) ==
    IF Max(start, reqStart) < Min(end, reqEnd)
    THEN Min(end, reqEnd) - Max(start, reqStart) ELSE 0

patternOverlap(pattern, key) ==
    overlapMinutes(timeToMinutes(pattern.morningShift.startTime),
                   timeToMinutes(pattern.morningShift.endTime),
                   timeToMinutes(key[1]), timeToMinutes(key[2]))
    + overlapMinutes(timeToMinutes(pattern.afternoonShift.startTime),
                     timeToMinutes(pattern.afternoonShift.endTime),
                     timeToMinutes(key[1]), timeToMinutes(key[2]))

updateCoverageTracker(coverageTracker, pattern) ==
    [k \in DOMAIN coverageTracker |->
        coverageTracker[k] + keyCount(k) * patternOverlap(pattern, k)]

\* coverageTracker[key] = (coverageTracker[key] || 0) + 1 for every requirement
\* the interval start..end touches
countWholeShift(coverageTracker, start, end) ==
    [k \in DOMAIN coverageTracker |->
        coverageTracker[k] +
        (IF timeToMinutes(start) < timeToMinutes(k[2]) /\ timeToMinutes(end) > timeToMinutes(k[1])
         THEN keyCount(k) * reqDuration(k) ELSE 0)]

\* coverageTracker[key] < req.requiredPharmacists
isUnmet(coverageTracker, req) ==
    coverageTracker[reqKey(req)] < req.requiredPharmacists * reqDuration(reqKey(req))

unmetRequirementsOf(coverageTracker) ==
    SelectSeq(requirements, LAMBDA req : isUnmet(coverageTracker, req))

patternHelpsWithRequirement(pattern, requirement) ==
    LET reqStart == timeToMinutes(requirement.startTime)
        reqEnd == timeToMinutes(requirement.endTime)
    IN  \/ /\ timeToMinutes(pattern.morningShift.startTime) < reqEnd
           /\ timeToMinutes(pattern.morningShift.endTime) > reqStart
        \/ /\ timeToMinutes(pattern.afternoonShift.startTime) < reqEnd
           /\ timeToMinutes(pattern.afternoonShift.endTime) > reqStart

\* Math.round((totalCoverage / reqDuration) * 100)
calculatePatternCoveragePercentage(pattern, requirement) ==
    LET reqDur == reqDuration(reqKey(requirement))
    IN  (200 * patternOverlap(pattern, reqKey(requirement)) + reqDur) \div (2 * reqDur)

MaxOfSeq(s) == CHOOSE x \in Range(s) : \A y \in Range(s) : y <= x
MinOfSeq(s) == CHOOSE x \in Range(s) : \A y \in Range(s) : x <= y

\* the score of one candidate pattern when requirements are unmet
patternScore(testPattern, testIndex, unmetRequirements, patternUsageCount) ==
    SumSeq([i \in DOMAIN unmetRequirements |->
               IF patternHelpsWithRequirement(testPattern, unmetRequirements[i])
               THEN calculatePatternCoveragePercentage(testPattern, unmetRequirements[i])
               ELSE 0])
    + (MaxOfSeq(patternUsageCount) - patternUsageCount[testIndex]) * 10

\* "if (score > bestScore)"
betterScored(best, testIndex, score) ==
    IF score > best.score THEN [patternIndex |-> testIndex - 1, score |-> score] ELSE best

\* patterns.forEach((testPattern, testIndex) => ...): best is the pattern index, from 0
RECURSIVE bestScoredPattern(_, _, _, _)
bestScoredPattern(testIndex, unmetRequirements, patternUsageCount, best) ==
    IF testIndex > Len(pharmacyRules.fixedShiftPatterns) THEN best.patternIndex
    ELSE bestScoredPattern(testIndex + 1, unmetRequirements, patternUsageCount,
             betterScored(best, testIndex,
                          patternScore(pharmacyRules.fixedShiftPatterns[testIndex], testIndex,
                                       unmetRequirements, patternUsageCount)))

\* the balanced rotation: the first of the sorted candidates, as a pattern index from 0
balancedPattern(pharmacist, fullTimePharmacists, patternUsageCount, pharmacistPatternUsage) ==
    LET patterns == pharmacyRules.fixedShiftPatterns
        count(i) == usageOf(pharmacistPatternUsage, pharmacist.id, patterns[i].id)
        counts == [i \in DOMAIN patterns |-> count(i)]
        minCount == MinOfSeq(counts)
        others(i) == {count(j) : j \in DOMAIN patterns \ {i}}
        newMin(i) == CHOOSE x \in {minCount} \cup others(i) :
                        \A y \in {minCount} \cup others(i) : x <= y
        newMax(i) == CHOOSE x \in {count(i) + 1} \cup others(i) :
                        \A y \in {count(i) + 1} \cup others(i) : y <= x
        balanced(i) == newMax(i) - newMin(i) <= 1
        indexes == [i \in DOMAIN patterns |-> i]
        balancedPatterns == SelectSeq(indexes, balanced)
        candidates == IF balancedPatterns # <<>> THEN balancedPatterns ELSE indexes
        global(i) == [ph \in DOMAIN fullTimePharmacists |->
                         usageOf(pharmacistPatternUsage, fullTimePharmacists[ph].id,
                                 patterns[i].id)]
        globalDiff(i) == Max(MaxOfSeq(global(i)), count(i) + 1)
                         - Min(MinOfSeq(global(i)), count(i) + 1)
        before(a, b) ==
            \/ balanced(a) /\ ~balanced(b)
            \/ /\ balanced(a) = balanced(b)
               /\ \/ globalDiff(a) < globalDiff(b)
                  \/ /\ globalDiff(a) = globalDiff(b)
                     /\ \/ count(a) < count(b)
                        \/ count(a) = count(b) /\ patternUsageCount[a] < patternUsageCount[b]
    IN  StableSort(candidates, before)[1] - 1

-----------------------------------------------------------------------------
(* Rotation path: createShiftAssignments, full-time pharmacists            *)

Assignment(pharmacist, shiftType, startTime, endTime, patternId) ==
    [pharmacist |-> pharmacist, shiftType |-> shiftType, startTime |-> startTime,
     endTime |-> endTime, patternId |-> patternId]

\* the index, from 0, of the pattern a full-time pharmacist is fixed to on dayName,
\* -1 when the pharmacist rotates
fixedPatternIndex(pharmacist, dayName) ==
    LET e == fixedEntry(pharmacist, dayName)
    IN  IF e = <<>> THEN -1
        ELSE FirstIndex(pharmacyRules.fixedShiftPatterns,
                        LAMBDA p : p.id = e[1].patternId) - 1

\* pharmacistPatternUsage[id][pattern.id]++ when the caller passed the map
countPharmacistPattern(pharmacistPatternUsage, phId, patternId) ==
    IF phId \in DOMAIN pharmacistPatternUsage
    THEN bumpUsage(pharmacistPatternUsage, phId, patternId)
    ELSE pharmacistPatternUsage

\* what both loops do once the pattern of a pharmacist is known
patternAssigned(st, pharmacist, patternIndex) ==
    [st EXCEPT
       !.patternAssignments =
           Append(@, [pharmacist |-> pharmacist,
                      pattern |-> pharmacyRules.fixedShiftPatterns[patternIndex + 1]]),
       !.patternUsageCount[patternIndex + 1] = @ + 1,
       !.pharmacistPatternUsage =
           countPharmacistPattern(@, pharmacist.id,
                                  pharmacyRules.fixedShiftPatterns[patternIndex + 1].id),
       !.coverageTracker =
           updateCoverageTracker(@, pharmacyRules.fixedShiftPatterns[patternIndex + 1])]

\* pharmacistsWithFixedPattern.forEach(...)
RECURSIVE assignFixedPatterns(_, _, _)
assignFixedPatterns(st, withFixed, dayName) ==
    IF withFixed = <<>> THEN st
    ELSE assignFixedPatterns(
             patternAssigned(st, Head(withFixed), fixedPatternIndex(Head(withFixed), dayName)),
             Tail(withFixed), dayName)

\* the pattern index, from 0, a rotating pharmacist gets
rotatingPatternIndex(st, pharmacist, fullTimePharmacists, unmetRequirements) ==
    IF unmetRequirements # <<>>
    THEN bestScoredPattern(1, unmetRequirements, st.patternUsageCount,
                           [patternIndex |-> st.patternRotationTracker[pharmacist.id],
                            score |-> 0])
    ELSE balancedPattern(pharmacist, fullTimePharmacists, st.patternUsageCount,
                         st.pharmacistPatternUsage)

\* "tracker.patternIndex = (tracker.patternIndex + 1) % patterns.length"
trackerAdvanced(st, pharmacist) ==
    [st EXCEPT !.patternRotationTracker[pharmacist.id] =
                   (@ + 1) % Len(pharmacyRules.fixedShiftPatterns)]

\* pharmacistsWithoutFixedPattern.forEach(...)
RECURSIVE assignRotatingPatterns(_, _, _)
assignRotatingPatterns(st, withoutFixed, fullTimePharmacists) ==
    IF withoutFixed = <<>> THEN st
    ELSE assignRotatingPatterns(
             trackerAdvanced(
                 patternAssigned(st, Head(withoutFixed),
                     rotatingPatternIndex(st, Head(withoutFixed), fullTimePharmacists,
                                          unmetRequirementsOf(st.coverageTracker))),
                 Head(withoutFixed)),
             Tail(withoutFixed), fullTimePharmacists)

\* patternAssignments.forEach(...): a pattern with a break gives a morning and an
\* afternoon assignment, a pattern without one a full-day assignment
RECURSIVE patternAssignmentsToAssignments(_)
patternAssignmentsToAssignments(patternAssignments) ==
    IF patternAssignments = <<>> THEN <<>>
    ELSE LET pharmacist == Head(patternAssignments).pharmacist
             pattern == Head(patternAssignments).pattern
             hasBreak == timeToMinutes(pattern.afternoonShift.startTime)
                         > timeToMinutes(pattern.morningShift.endTime)
         IN  (IF hasBreak
              THEN <<Assignment(pharmacist, "morning", pattern.morningShift.startTime,
                                pattern.morningShift.endTime, pattern.id),
                     Assignment(pharmacist, "afternoon", pattern.afternoonShift.startTime,
                                pattern.afternoonShift.endTime, pattern.id)>>
              ELSE <<Assignment(pharmacist, "full", pattern.morningShift.startTime,
                                pattern.afternoonShift.endTime, pattern.id)>>)
             \o patternAssignmentsToAssignments(Tail(patternAssignments))

\* what the full-time part hands on
fullTimeResult(done) ==
    [assignments |-> patternAssignmentsToAssignments(done.patternAssignments),
     patternRotationTracker |-> done.patternRotationTracker,
     pharmacistPatternUsage |-> done.pharmacistPatternUsage]

\* the state of the pattern loops once every full-time pharmacist has a pattern
patternsAssigned(fullTimePharmacists, patternRotationTracker, dayName, pharmacistPatternUsage) ==
    assignRotatingPatterns(
        assignFixedPatterns(
            [patternAssignments |-> <<>>,
             patternUsageCount |-> [i \in DOMAIN pharmacyRules.fixedShiftPatterns |-> 0],
             coverageTracker |-> createCoverageTracker,
             patternRotationTracker |-> patternRotationTracker,
             pharmacistPatternUsage |-> pharmacistPatternUsage],
            SelectSeq(fullTimePharmacists, LAMBDA p : fixedPatternIndex(p, dayName) >= 0),
            dayName),
        SelectSeq(fullTimePharmacists, LAMBDA p : fixedPatternIndex(p, dayName) < 0),
        fullTimePharmacists)

assignFullTimeOf(fullTimePharmacists, patternRotationTracker, dayName, pharmacistPatternUsage) ==
    fullTimeResult(patternsAssigned(fullTimePharmacists, patternRotationTracker, dayName,
                                    pharmacistPatternUsage))

\* the part of createShiftAssignments that places the full-time pharmacists;
\* the caller has checked that a pattern exists
assignFullTime(availablePharmacists, patternRotationTracker, dayName, pharmacistPatternUsage) ==
    assignFullTimeOf(SelectSeq(availablePharmacists, LAMBDA p : p.weeklyHours >= 40),
                     patternRotationTracker, dayName, pharmacistPatternUsage)

-----------------------------------------------------------------------------
(* Rotation path: createShiftAssignments, part-time pharmacists            *)

\* pharmacist.freeDay || pharmacist.fixedDayPatterns?.some(p => p.patternId === 'FREE_DAY')
hasFreeDay(pharmacist) ==
    \/ pharmacist.freeDay # ""
    \/ \E i \in DOMAIN pharmacist.fixedDayPatterns :
          pharmacist.fixedDayPatterns[i].patternId = "FREE_DAY"

workingDaysPerWeek(pharmacist) == IF hasFreeDay(pharmacist) THEN 5 ELSE 6

\* a / b for b # 0, rounded towards zero; the callers record whether it is exact
Quot(a, b) == IF (a >= 0) = (b > 0) THEN Abs(a) \div Abs(b) ELSE -(Abs(a) \div Abs(b))

Divides(b, a) == b # 0 /\ Abs(a) % Abs(b) = 0

\* weeklyHoursTotal / workingDaysPerWeek, in minutes
dailyHoursTarget(pharmacist) == (pharmacist.weeklyHours * 60) \div workingDaysPerWeek(pharmacist)

\* the hours, in minutes, of the rule of the last working day and of the earlier days,
\* before "Ensure minimum assignment"
statedHours(pharmacist, remainingHours, remainingWorkingDays) ==
    LET dailyTarget == dailyHoursTarget(pharmacist)
    IN  IF remainingWorkingDays = 1 THEN remainingHours
        ELSE IF remainingHours >= dailyTarget * remainingWorkingDays THEN dailyTarget
        ELSE IF remainingHours - dailyTarget * (remainingWorkingDays - 1) > 0
             THEN remainingHours - dailyTarget * (remainingWorkingDays - 1)
             ELSE IF remainingWorkingDays = 0 THEN 30
                  ELSE Max(30, Quot(remainingHours, remainingWorkingDays))

\* the hours, in minutes, createShiftAssignments decides to place today
hoursToAssignToday(pharmacist, remainingHours, remainingWorkingDays) ==
    LET target == dailyHoursTarget(pharmacist)
        hoursNeededForRemainingDays == target * (remainingWorkingDays - 1)
        hours ==
            IF remainingWorkingDays = 1 THEN remainingHours
            ELSE IF remainingHours >= hoursNeededForRemainingDays + target THEN target
            ELSE IF remainingHours > hoursNeededForRemainingDays
                 THEN remainingHours - hoursNeededForRemainingDays
                 ELSE IF remainingWorkingDays = 0 THEN 30
                      ELSE Max(30, Quot(remainingHours, remainingWorkingDays))
    IN  IF hours < 6 THEN 30 ELSE hours

\* whether the divisions behind hoursToAssignToday leave whole minutes
hoursToAssignExact(pharmacist, remainingHours, remainingWorkingDays) ==
    LET target == dailyHoursTarget(pharmacist)
        hoursNeededForRemainingDays == target * (remainingWorkingDays - 1)
    IN  /\ Divides(workingDaysPerWeek(pharmacist), pharmacist.weeklyHours * 60)
        /\ (/\ remainingWorkingDays \notin {0, 1}
            /\ remainingHours < hoursNeededForRemainingDays + target
            /\ remainingHours <= hoursNeededForRemainingDays)
           => Divides(remainingWorkingDays, remainingHours)

patternHours(pattern) ==
    [morning |-> calculateShiftHours(pattern.morningShift.startTime,
                                     pattern.morningShift.endTime),
     afternoon |-> calculateShiftHours(pattern.afternoonShift.startTime,
                                       pattern.afternoonShift.endTime),
     full |-> calculateShiftHours(pattern.morningShift.startTime,
                                  pattern.morningShift.endTime)
              + calculateShiftHours(pattern.afternoonShift.startTime,
                                    pattern.afternoonShift.endTime)]

\* which parts of a pattern span a requirement
patternCovers(pattern, requirement) ==
    LET reqStart == timeToMinutes(requirement.startTime)
        reqEnd == timeToMinutes(requirement.endTime)
        morningStart == timeToMinutes(pattern.morningShift.startTime)
        morningEnd == timeToMinutes(pattern.morningShift.endTime)
        afternoonStart == timeToMinutes(pattern.afternoonShift.startTime)
        afternoonEnd == timeToMinutes(pattern.afternoonShift.endTime)
    IN  [morning |-> morningStart <= reqStart /\ morningEnd >= reqEnd,
         afternoon |-> afternoonStart <= reqStart /\ afternoonEnd >= reqEnd,
         full |-> morningStart <= reqStart /\ afternoonEnd >= reqEnd]

requirementScore(pattern, requirement, remainingHours) ==
    LET covers == patternCovers(pattern, requirement)
        hours == patternHours(pattern)
    IN  (IF covers.full THEN 100 ELSE IF covers.afternoon THEN 70 ELSE 50)
        + (IF remainingHours >= hours.full THEN 20
           ELSE IF remainingHours >= hours.afternoon THEN 10
           ELSE IF remainingHours >= hours.morning THEN 5
           ELSE -50)

\* <<pattern>> for the best pattern, <<>> for null
RECURSIVE findBestPatternForRequirement(_, _, _, _, _)
findBestPatternForRequirement(requirement, patterns, remainingHours, bestPattern, bestScore) ==
    IF patterns = <<>> THEN bestPattern
    ELSE LET pattern == Head(patterns)
             covers == patternCovers(pattern, requirement)
             score == requirementScore(pattern, requirement, remainingHours)
         IN  IF ~covers.morning /\ ~covers.afternoon /\ ~covers.full
             THEN findBestPatternForRequirement(requirement, Tail(patterns), remainingHours,
                                                bestPattern, bestScore)
             ELSE IF score > bestScore
                  THEN findBestPatternForRequirement(requirement, Tail(patterns),
                                                     remainingHours, <<pattern>>, score)
                  ELSE findBestPatternForRequirement(requirement, Tail(patterns),
                                                     remainingHours, bestPattern, bestScore)

PartShift(shiftType, startTime, endTime) ==
    [shiftType |-> shiftType, startTime |-> startTime, endTime |-> endTime]

\* <<shift>> for the adjusted shift, <<>> for null
adjustPatternForPartTimeExact(pattern, requirement, exactHours) ==
    LET covers == patternCovers(pattern, requirement)
        hours == patternHours(pattern)
        morningStart == timeToMinutes(pattern.morningShift.startTime)
        morningEnd == timeToMinutes(pattern.morningShift.endTime)
        afternoonEnd == timeToMinutes(pattern.afternoonShift.endTime)
    IN  IF covers.morning /\ Abs(hours.morning - exactHours) < 30
        THEN <<PartShift("morning", pattern.morningShift.startTime,
                         pattern.morningShift.endTime)>>
        ELSE IF covers.morning /\ hours.morning < exactHours
        THEN <<PartShift("morning", pattern.morningShift.startTime,
                         minutesToTime(morningEnd + (exactHours - hours.morning)))>>
        ELSE IF covers.afternoon /\ Abs(hours.afternoon - exactHours) < 30
        THEN <<PartShift("afternoon", pattern.afternoonShift.startTime,
                         pattern.afternoonShift.endTime)>>
        ELSE IF covers.afternoon /\ hours.afternoon < exactHours
        THEN <<PartShift("afternoon", pattern.afternoonShift.startTime,
                         minutesToTime(afternoonEnd + (exactHours - hours.afternoon)))>>
        ELSE IF covers.full /\ Abs(hours.full - exactHours) < 30
        THEN <<PartShift("full", pattern.morningShift.startTime,
                         pattern.afternoonShift.endTime)>>
        ELSE IF covers.full /\ hours.full < exactHours
        THEN <<PartShift("full", pattern.morningShift.startTime,
                         minutesToTime(afternoonEnd + (exactHours - hours.full)))>>
        ELSE IF covers.full /\ hours.full > exactHours
                /\ afternoonEnd - (hours.full - exactHours) > morningStart
        THEN <<PartShift("full", pattern.morningShift.startTime,
                         minutesToTime(afternoonEnd - (hours.full - exactHours)))>>
        ELSE <<>>

\* unmetRequirements.sort((a, b) => bGap - aGap): largest gap first
sortByGap(unmetRequirements, coverageTracker) ==
    LET gap(req) == req.requiredPharmacists * reqDuration(reqKey(req))
                    - coverageTracker[reqKey(req)]
    IN  StableSort(unmetRequirements,
                   LAMBDA a, b : gap(a) * reqDuration(reqKey(b))
                                 > gap(b) * reqDuration(reqKey(a)))

\* <<pattern, shift>> when the pattern could be adjusted, <<>> otherwise
adjustedTo(pattern, adjustedShift) ==
    IF adjustedShift = <<>> THEN <<>> ELSE <<pattern, adjustedShift[1]>>

\* what one unmet requirement gives, from its best pattern
coverRequirement(requirement, hours, bestPattern) ==
    IF bestPattern = <<>> THEN <<>>
    ELSE adjustedTo(bestPattern[1],
                    adjustPatternForPartTimeExact(bestPattern[1], requirement, hours))

\* for (const requirement of unmetRequirements): the first requirement for which a
\* pattern can be adjusted; <<pattern, shift>> or <<>>
RECURSIVE coverUnmetRequirement(_, _)
firstCovered(covered, rest, hours) ==
    IF covered # <<>> THEN covered ELSE coverUnmetRequirement(rest, hours)

coverUnmetRequirement(unmetRequirements, hours) ==
    IF unmetRequirements = <<>> THEN <<>>
    ELSE firstCovered(
             coverRequirement(Head(unmetRequirements), hours,
                 findBestPatternForRequirement(Head(unmetRequirements),
                     pharmacyRules.fixedShiftPatterns, hours, <<>>, 0)),
             Tail(unmetRequirements), hours)

\* the configurations of every pattern, in the order the code tries them
shiftConfigs ==
    LET patterns == pharmacyRules.fixedShiftPatterns
        config(i, k) ==
            LET pattern == patterns[i]
                hours == patternHours(pattern)
            IN  CASE k = 1 -> [pattern |-> pattern, type |-> "full", hours |-> hours.full,
                               start |-> pattern.morningShift.startTime,
                               end |-> pattern.afternoonShift.endTime]
                  [] k = 2 -> [pattern |-> pattern, type |-> "afternoon",
                               hours |-> hours.afternoon,
                               start |-> pattern.afternoonShift.startTime,
                               end |-> pattern.afternoonShift.endTime]
                  [] k = 3 -> [pattern |-> pattern, type |-> "morning",
                               hours |-> hours.morning,
                               start |-> pattern.morningShift.startTime,
                               end |-> pattern.morningShift.endTime]
    IN  [n \in 1..(3 * Len(patterns)) |-> config(((n - 1) \div 3) + 1, ((n - 1) % 3) + 1)]

\* Scores are held multiplied by 6, so that 10 points per hour is 1 point per
\* minute: 100 is 600, 80 is 480, 70 is 420.
RECURSIVE bestConfig(_, _, _, _)
bestConfig(configs, hours, best, bestScore) ==
    IF configs = <<>> THEN best
    ELSE LET config == Head(configs)
             endMinutes == timeToMinutes(config.end)
             extendedEndMinutes == endMinutes + (hours - config.hours)
             reducedEndMinutes == endMinutes - (config.hours - hours)
             asIs == config.hours <= hours + 30 /\ config.hours >= hours - 30
             extend == ~asIs /\ config.hours < hours
                       /\ extendedEndMinutes <= timeToMinutes(pharmacyRules.closingTime)
             shorten == ~asIs /\ ~(config.hours < hours) /\ config.hours > hours
                        /\ reducedEndMinutes > timeToMinutes(config.start)
             score == IF asIs THEN 600 - Abs(config.hours - hours)
                      ELSE IF extend THEN 480 ELSE IF shorten THEN 420 ELSE 0
             shift == PartShift(config.type, config.start,
                                IF asIs THEN config.end
                                ELSE IF extend THEN minutesToTime(extendedEndMinutes)
                                ELSE minutesToTime(reducedEndMinutes))
         IN  IF (asIs \/ extend \/ shorten) /\ score > bestScore
             THEN bestConfig(Tail(configs), hours, <<config.pattern, shift>>, score)
             ELSE bestConfig(Tail(configs), hours, best, bestScore)

\* the loop of the fallback over the patterns: the pattern it last looked at
\* (<<>> for none) and the shift it settled on (<<>> for none)
RECURSIVE fallbackFromPatterns(_, _, _)
fallbackFromPatterns(patterns, hours, fallbackPattern) ==
    IF patterns = <<>> THEN [pattern |-> fallbackPattern, shift |-> <<>>]
    ELSE LET pattern == Head(patterns)
             ph == patternHours(pattern)
             closingMinutes == timeToMinutes(pharmacyRules.closingTime)
             morningTarget == timeToMinutes(pattern.morningShift.startTime) + hours
             afternoonTarget == timeToMinutes(pattern.afternoonShift.startTime) + hours
         IN  IF Abs(ph.full - hours) <= 120
             THEN IF morningTarget <= closingMinutes
                  THEN [pattern |-> <<pattern>>,
                        shift |-> <<PartShift("full", pattern.morningShift.startTime,
                                              minutesToTime(morningTarget))>>]
                  ELSE fallbackFromPatterns(Tail(patterns), hours, <<pattern>>)
             ELSE IF Abs(ph.afternoon - hours) <= 90
             THEN IF afternoonTarget <= closingMinutes
                  THEN [pattern |-> <<pattern>>,
                        shift |-> <<PartShift("afternoon", pattern.afternoonShift.startTime,
                                              minutesToTime(afternoonTarget))>>]
                  ELSE fallbackFromPatterns(Tail(patterns), hours, <<pattern>>)
             ELSE IF Abs(ph.morning - hours) <= 90
             THEN [pattern |-> <<pattern>>,
                   shift |-> <<PartShift("morning", pattern.morningShift.startTime,
                                         minutesToTime(morningTarget))>>]
             ELSE fallbackFromPatterns(Tail(patterns), hours, fallbackPattern)

\* the custom shift of the fallback, from what the loop over the patterns found
fallbackShiftFrom(found, hours, openingMinutes, closingMinutes) ==
    IF found.shift # <<>>
    THEN <<found.pattern[1].id, found.shift[1]>>
    ELSE IF openingMinutes + hours <= closingMinutes
    THEN <<IF found.pattern = <<>> THEN "" ELSE found.pattern[1].id,
           PartShift("full", pharmacyRules.openingTime,
                     minutesToTime(openingMinutes + hours))>>
    ELSE IF closingMinutes - hours >= openingMinutes
    THEN <<IF found.pattern = <<>> THEN "" ELSE found.pattern[1].id,
           PartShift("full", minutesToTime(closingMinutes - hours),
                     pharmacyRules.closingTime)>>
    ELSE <<>>

\* the custom shift of the fallback: <<patternId, shift>> or <<>>
fallbackShiftFor(hours) ==
    fallbackShiftFrom(fallbackFromPatterns(pharmacyRules.fixedShiftPatterns, hours, <<>>),
                      hours, timeToMinutes(pharmacyRules.openingTime),
                      timeToMinutes(pharmacyRules.closingTime))

\* the shift that covers an unmet requirement: <<pattern, shift>> or <<>>
coveringShift(hours, coverageTracker, unmetRequirements) ==
    IF unmetRequirements = <<>> THEN <<>>
    ELSE coverUnmetRequirement(sortByGap(unmetRequirements, coverageTracker), hours)

\* the order in which the allocator settles on a shift
partTimeChoiceOf(pharmacist, covering, fitting, fallback, openingMinutes) ==
    LET asAssignment(patternId, shift) ==
            Assignment(pharmacist, shift.shiftType, shift.startTime, shift.endTime, patternId)
    IN  IF covering # <<>>
        THEN [assignment |-> <<asAssignment(covering[1].id, covering[2])>>,
              tracked |-> TRUE, counted |-> TRUE]
        ELSE IF fitting # <<>>
        THEN [assignment |-> <<asAssignment(fitting[1].id, fitting[2])>>,
              tracked |-> TRUE, counted |-> TRUE]
        ELSE IF fallback # <<>>
        THEN [assignment |-> <<asAssignment(fallback[1], fallback[2])>>,
              tracked |-> TRUE, counted |-> TRUE]
        ELSE IF openingMinutes + 120 <= timeToMinutes(pharmacyRules.closingTime)
        THEN [assignment |-> <<Assignment(pharmacist, "morning", pharmacyRules.openingTime,
                                          minutesToTime(openingMinutes + 120), "")>>,
              tracked |-> FALSE, counted |-> TRUE]
        ELSE [assignment |-> <<>>, tracked |-> FALSE, counted |-> FALSE]

\* what one part-time pharmacist gets today: the assignment (<<>> for none), and
\* whether the coverage tracker and the remaining days are updated
partTimeChoice(pharmacist, hours, coverageTracker) ==
    partTimeChoiceOf(pharmacist,
                     coveringShift(hours, coverageTracker,
                                   unmetRequirementsOf(coverageTracker)),
                     bestConfig(shiftConfigs, hours, <<>>, 0),
                     fallbackShiftFor(hours),
                     timeToMinutes(pharmacyRules.openingTime))

\* partTimeWorkingDaysRemaining[pharmacist.id] ?? workingDaysPerWeek
remainingWorkingDaysOf(st, pharmacist) ==
    IF pharmacist.id \in DOMAIN st.partTimeWorkingDaysRemaining
    THEN st.partTimeWorkingDaysRemaining[pharmacist.id]
    ELSE workingDaysPerWeek(pharmacist)

\* the state of the loop after one pharmacist got the choice
partTimeAssigned(st, pharmacist, remainingWorkingDays, choice, exact) ==
    [assignments |-> st.assignments \o choice.assignment,
     coverageTracker |->
        IF choice.tracked
        THEN countWholeShift(st.coverageTracker, choice.assignment[1].startTime,
                             choice.assignment[1].endTime)
        ELSE st.coverageTracker,
     partTimeWorkingDaysRemaining |->
        IF choice.counted
        THEN [id \in DOMAIN st.partTimeWorkingDaysRemaining \cup {pharmacist.id} |->
                 IF id = pharmacist.id THEN remainingWorkingDays - 1
                 ELSE st.partTimeWorkingDaysRemaining[id]]
        ELSE st.partTimeWorkingDaysRemaining,
     exact |-> st.exact /\ exact]

assignOnePartTime(st, pharmacist, remainingHours, remainingWorkingDays) ==
    partTimeAssigned(st, pharmacist, remainingWorkingDays,
        partTimeChoice(pharmacist,
                       hoursToAssignToday(pharmacist, remainingHours, remainingWorkingDays),
                       st.coverageTracker),
        hoursToAssignExact(pharmacist, remainingHours, remainingWorkingDays))

\* for (const pharmacist of partTimePharmacists)
RECURSIVE assignPartTime(_, _, _, _)
assignPartTime(st, partTime, dayName, ledger) ==
    IF partTime = <<>> THEN st
    ELSE assignPartTime(
             IF \/ isFreeDay(Head(partTime), dayName)
                \/ \E i \in DOMAIN st.assignments :
                      st.assignments[i].pharmacist.id = Head(partTime).id
             THEN st
             ELSE assignOnePartTime(st, Head(partTime), ledger[Head(partTime).id],
                                    remainingWorkingDaysOf(st, Head(partTime))),
             Tail(partTime), dayName, ledger)

\* the coverage tracker createShiftAssignments rebuilds from the assignments made
\* for the full-time pharmacists
RECURSIVE coverageOfAssignments(_, _)
coverageOfAssignments(coverageTracker, assignments) ==
    IF assignments = <<>> THEN coverageTracker
    ELSE LET pattern == patternById(Head(assignments).patternId)
         IN  coverageOfAssignments(
                 IF pattern # <<>> THEN updateCoverageTracker(coverageTracker, pattern[1])
                 ELSE countWholeShift(coverageTracker, Head(assignments).startTime,
                                      Head(assignments).endTime),
                 Tail(assignments))

\* what createShiftAssignments hands back
shiftAssignmentsOf(full, part) ==
    [assignments |-> part.assignments,
     patternRotationTracker |-> full.patternRotationTracker,
     pharmacistPatternUsage |-> full.pharmacistPatternUsage,
     partTimeWorkingDaysRemaining |-> part.partTimeWorkingDaysRemaining,
     exact |-> part.exact]

\* the part-time pharmacists are placed after the full-time ones
afterFullTime(full, partTime, dayName, ledger, partTimeWorkingDaysRemaining) ==
    shiftAssignmentsOf(full,
        assignPartTime(
            [assignments |-> full.assignments,
             coverageTracker |->
                coverageOfAssignments(createCoverageTracker, full.assignments),
             partTimeWorkingDaysRemaining |-> partTimeWorkingDaysRemaining,
             exact |-> TRUE],
            partTime, dayName, ledger))

createShiftAssignments(availablePharmacists, patternRotationTracker, dayName, ledger, partTimeWorkingDaysRemaining, pharmacistPatternUsage) ==
    afterFullTime(
        IF SelectSeq(availablePharmacists, LAMBDA p : p.weeklyHours >= 40) # <<>>
        THEN assignFullTime(availablePharmacists, patternRotationTracker, dayName,
                            pharmacistPatternUsage)
        ELSE [assignments |-> <<>>,
              patternRotationTracker |-> patternRotationTracker,
              pharmacistPatternUsage |-> pharmacistPatternUsage],
        SelectSeq(availablePharmacists, LAMBDA p : p.weeklyHours < 40),
        dayName, ledger, partTimeWorkingDaysRemaining)

-----------------------------------------------------------------------------
(* Rotation path: generateDayShifts                                        *)

\* the shifts one assignment becomes, and the hours charged for them
shiftsOfAssignment(assignment, date) ==
    LET pharmacist == assignment.pharmacist
        startTime == assignment.startTime
        endTime == assignment.endTime
        shiftHours == calculateShiftHours(startTime, endTime)
        startMinutes == timeToMinutes(startTime)
        openingMinutes == timeToMinutes(pharmacyRules.openingTime)
        closingMinutes == timeToMinutes(pharmacyRules.closingTime)
        breakStartMinutes == timeToMinutes(pharmacyRules.breakStartTime)
        breakEndMinutes == timeToMinutes(pharmacyRules.breakEndTime)
        mk(type, from, to) == Shift(pharmacist.id, date, from, to, type, assignment.patternId)
        none == [shifts |-> <<>>, hours |-> 0]
        isPartTime == pharmacist.weeklyHours < 40
        morningHours == breakStartMinutes - startMinutes
        afternoonHours == timeToMinutes(endTime) - breakEndMinutes
        morningPart ==
            IF morningHours >= 120
            THEN [shifts |-> <<mk("morning", startTime, pharmacyRules.breakStartTime)>>,
                  hours |-> morningHours]
            ELSE IF isPartTime /\ morningHours > 0
                 THEN [shifts |-> <<mk("morning", startTime, pharmacyRules.breakStartTime)>>,
                       hours |-> Max(120, morningHours)]
                 ELSE none
        afternoonPart ==
            IF afternoonHours >= 120
            THEN [shifts |-> <<mk("afternoon", pharmacyRules.breakEndTime, endTime)>>,
                  hours |-> afternoonHours]
            ELSE IF isPartTime /\ afternoonHours > 0
                 THEN [shifts |-> <<mk("afternoon", pharmacyRules.breakEndTime, endTime)>>,
                       hours |-> Max(120, afternoonHours)]
                 ELSE none
    IN  CASE assignment.shiftType = "morning" ->
               IF ~(shiftHours < 120)
               THEN [shifts |-> <<mk("morning", startTime, endTime)>>, hours |-> shiftHours]
               ELSE IF startMinutes + 120 <= closingMinutes
               THEN [shifts |-> <<mk("morning", startTime, minutesToTime(startMinutes + 120))>>,
                     hours |-> 120]
               ELSE IF openingMinutes + 120 <= closingMinutes
               THEN [shifts |-> <<mk("morning", startTime,
                                     minutesToTime(openingMinutes + 120))>>,
                     hours |-> 120]
               ELSE none
          [] assignment.shiftType = "afternoon" ->
               IF ~(shiftHours < 120)
               THEN [shifts |-> <<mk("afternoon", startTime, endTime)>>, hours |-> shiftHours]
               ELSE IF startMinutes + 120 <= closingMinutes
               THEN [shifts |-> <<mk("afternoon", startTime,
                                     minutesToTime(startMinutes + 120))>>,
                     hours |-> 120]
               ELSE IF closingMinutes - 120 >= breakEndMinutes
               THEN [shifts |-> <<mk("afternoon", minutesToTime(closingMinutes - 120),
                                     pharmacyRules.closingTime)>>,
                     hours |-> 120]
               ELSE none
          [] assignment.shiftType = "full" ->
               IF isPartTime /\ morningPart.hours + afternoonPart.hours = 0
               THEN IF openingMinutes + 120 <= closingMinutes
                    THEN [shifts |-> <<mk("morning", pharmacyRules.openingTime,
                                          minutesToTime(openingMinutes + 120))>>,
                          hours |-> 120]
                    ELSE none
               ELSE [shifts |-> morningPart.shifts \o afternoonPart.shifts,
                     hours |-> morningPart.hours + afternoonPart.hours]

\* the shifts are pushed; the hours are deducted "if (totalHours > 0)"
assignmentBooked(st, id, made) ==
    [shifts |-> st.shifts \o made.shifts,
     weeklyHours |-> IF made.hours > 0
                     THEN [st.weeklyHours EXCEPT ![id] = @ - made.hours]
                     ELSE st.weeklyHours]

\* shiftAssignments.forEach(...): the day's shifts and the weeklyHours ledger
RECURSIVE shiftsOfAssignments(_, _, _)
shiftsOfAssignments(st, assignments, date) ==
    IF assignments = <<>> THEN st
    ELSE shiftsOfAssignments(
             assignmentBooked(st, Head(assignments).pharmacist.id,
                              shiftsOfAssignment(Head(assignments), date)),
             Tail(assignments), date)

\* the state of the week after a day
weekAfterDay(wk, made, day) ==
    [shifts |-> wk.shifts \o day.shifts,
     weeklyHours |-> day.weeklyHours,
     patternRotationTracker |-> made.patternRotationTracker,
     partTimeWorkingDaysRemaining |-> made.partTimeWorkingDaysRemaining,
     pharmacistPatternUsage |-> made.pharmacistPatternUsage,
     exact |-> wk.exact /\ made.exact]

dayOfAssignments(wk, date, made) ==
    weekAfterDay(wk, made,
                 shiftsOfAssignments([shifts |-> <<>>, weeklyHours |-> wk.weeklyHours],
                                     made.assignments, date))

\* generateDayShifts over the state of the week generated so far
generateDayShifts(wk, date, availablePharmacists, dayName) ==
    dayOfAssignments(wk, date,
        createShiftAssignments(availablePharmacists, wk.patternRotationTracker,
                               dayName, wk.weeklyHours, wk.partTimeWorkingDaysRemaining,
                               wk.pharmacistPatternUsage))

-----------------------------------------------------------------------------
(* Rotation path: generateWeekScheduleWithRotation, tryResolveWarnings      *)

\* the rotation path passes no pharmacistPatternUsage
NoUsage == <<>>

initialWeeklyHours ==
    [id \in {activePharmacists[i].id : i \in DOMAIN activePharmacists} |->
        LET i == FirstIndex(activePharmacists, LAMBDA p : p.id = id)
        IN  activePharmacists[i].weeklyHours * 60]

initialWorkingDaysRemaining ==
    [id \in {partTimePharmacists[i].id : i \in DOMAIN partTimePharmacists} |->
        LET i == FirstIndex(partTimePharmacists, LAMBDA p : p.id = id)
        IN  workingDaysPerWeek(partTimePharmacists[i])]

\* "if (availablePharmacists.length < 3) continue"
rotationDay(wk, date, availablePharmacists, dayName) ==
    IF Len(availablePharmacists) < 3 THEN wk
    ELSE generateDayShifts(wk, date, availablePharmacists, dayName)

RECURSIVE rotationDays(_, _, _, _)
rotationDays(wk, start, weekNumber, day) ==
    IF day > Len(workdays) THEN wk
    ELSE rotationDays(rotationDay(wk, start + (day - 1),
                                  getAvailablePharmacists(dayNames[day], weekNumber,
                                                          wk.weeklyHours),
                                  dayNames[day]),
                      start, weekNumber, day + 1)

rotationSchedule(start, wk) == [weekStart |-> start, shifts |-> wk.shifts, exact |-> wk.exact]

\* the week before its first day: no shift, the two ledgers as initialised
rotationStart(patternRotationTracker) ==
    [shifts |-> <<>>,
     weeklyHours |-> initialWeeklyHours,
     patternRotationTracker |-> patternRotationTracker,
     partTimeWorkingDaysRemaining |-> initialWorkingDaysRemaining,
     pharmacistPatternUsage |-> NoUsage,
     exact |-> TRUE]

generateWeekScheduleWithRotation(start, weekNumber, patternRotationTracker) ==
    rotationSchedule(start,
        rotationDays(rotationStart(patternRotationTracker), start, weekNumber, 1))

reassignablePharmacists ==
    SelectSeq(activePharmacists, LAMBDA p : p.fixedDayPatterns = <<>>)

maxAttempts ==
    Min(Len(pharmacyRules.fixedShiftPatterns) * Len(reassignablePharmacists) * 2, 50)

\* pharmacist.id.split('').reduce((h, c) => h + c.charCodeAt(0), 0)
charCodeSum(id) ==
    CASE id = "w1" -> 119 + 49
      [] id = "w2" -> 119 + 50
      [] id = "w3" -> 119 + 51
      [] id = "w4" -> 119 + 52
      [] id = "w5" -> 119 + 53
      [] id = "w6" -> 119 + 54

\* the patternRotationTracker of one attempt: pharmacist id -> patternIndex
attemptTracker(attempt) ==
    LET n == Len(pharmacyRules.fixedShiftPatterns)
        r == Len(reassignablePharmacists)
    IN  [id \in {activePharmacists[i].id : i \in DOMAIN activePharmacists} |->
            LET pharmacistIndex == FirstIndex(reassignablePharmacists,
                                              LAMBDA p : p.id = id) - 1
            IN  IF pharmacistIndex >= 0
                THEN (pharmacistIndex + ((attempt \div r) % n) + attempt) % n
                ELSE charCodeSum(id) % n]

-----------------------------------------------------------------------------
(* generateSchedule and the admin page: state and steps                    *)

MaxRuns == 1       \* generateSchedule calls explored
MaxEdits == 1      \* manual edits explored
MaxShuffled == 2   \* longest worker list whose every shuffle is explored
WeekStarts == {0, 7}

Schedule(start, list, w) == [weekStart |-> start, shifts |-> list, warnings |-> w]

NoSchedule == Schedule(0, <<>>, <<>>)

NoBalance == [i |-> 0, inLoop |-> FALSE, remainingExtra |-> 0, processedDays |-> {},
              exact |-> TRUE]

\* no rotation-path week is being built
NoRotation == <<>>

NoResolver == [attempt |-> 0, best |-> <<>>, bestWarningCount |-> 0,
               originalWarningCount |-> 0, stopped |-> FALSE, exact |-> TRUE]

\* the week number generateSchedule passes: the admin page asks for one week
weekNumber == 0

adaptBreakDuration(rules) ==
    LET breakStart == timeToMinutes(rules.breakStartTime)
        breakDuration == timeToMinutes(rules.breakEndTime) - breakStart
    IN  IF breakDuration < 30
        THEN [rules EXCEPT !.breakEndTime = minutesToTime((breakStart + 30) % 1440)]
        ELSE IF breakDuration > 150
             THEN [rules EXCEPT !.breakEndTime = minutesToTime((breakStart + 150) % 1440)]
             ELSE rules

Init ==
    /\ scenario \in ScenarioIds
    /\ pharmacists = ScenarioPharmacists(scenario)
    /\ pharmacyRules = ScenarioRules(scenario)
    /\ schedules = <<>>
    /\ db = {}
    /\ pc = "idle"
    /\ weekStart = 0
    /\ dayIndex = 0
    /\ retry = 0
    /\ shifts = <<>>
    /\ patternUsage = <<>>
    /\ bestDayShifts = <<>>
    /\ bestWarnings = <<>>
    /\ bestRetry = -1
    /\ balance = NoBalance
    /\ schedule = NoSchedule
    /\ warnings = <<>>
    /\ initial = NoSchedule
    /\ resolver = NoResolver
    /\ runs = 0
    /\ edits = 0
    /\ steps = 0
    /\ vcalls = 0
    /\ vprev = <<>>
    /\ rotation = NoRotation

inputs == <<pharmacists, scenario>>
validatorVars == <<vcalls, vprev>>
dayVars == <<retry, bestDayShifts, bestWarnings, bestRetry>>

\* the admin page calls generateSchedule(1, weekStartDate)
StartGenerate(start) ==
    /\ pc = "idle"
    /\ runs < MaxRuns
    /\ runs' = runs + 1
    /\ pharmacyRules' = adaptBreakDuration(pharmacyRules)
    /\ weekStart' = start
    /\ dayIndex' = 0
    /\ shifts' = <<>>
    /\ patternUsage' = initialPatternUsage
    /\ retry' = 0
    /\ bestDayShifts' = <<>>
    /\ bestWarnings' = <<>>
    /\ bestRetry' = -1
    /\ balance' = NoBalance
    /\ schedule' = NoSchedule
    /\ warnings' = <<>>
    /\ initial' = NoSchedule
    /\ resolver' = NoResolver
    /\ pc' = "day"
    /\ UNCHANGED <<inputs, schedules, edits, validatorVars, rotation, db>>
    /\ steps' = 0

\* a day loop that takes any number of workers
neverTooFew(availablePharmacists) == FALSE

\* "if (availablePharmacists.length < 3) continue"
tooFewPharmacists(availablePharmacists) == Len(availablePharmacists) < 3

\* the day loop without its guard on an empty pattern list
patternsAssumed == FALSE

\* "if (patterns.length === 0) continue"
noPatternsDefined == pharmacyRules.fixedShiftPatterns = <<>>

\* the head of the day loop, up to the start of the retry loop
BeginDay ==
    /\ pc = "day"
    /\ dayIndex < Len(workdays)
    /\ LET availablePharmacists == availableFirstPass(dayNames[dayIndex + 1], weekNumber)
       IN  IF tooFewPharmacists(availablePharmacists) \/ noPatternsDefined
           THEN /\ dayIndex' = dayIndex + 1
                /\ UNCHANGED <<pc, dayVars>>
           ELSE /\ pc' = "retry"
                /\ retry' = 0
                /\ bestDayShifts' = <<>>
                /\ bestWarnings' = <<>>
                /\ bestRetry' = -1
                /\ UNCHANGED dayIndex
    /\ UNCHANGED <<inputs, pharmacyRules, schedules, weekStart, shifts, patternUsage, balance,
                   schedule, warnings, initial, resolver, runs, edits, validatorVars, rotation,
                   db>>
    /\ steps' = steps + 1

\* a day loop that drops a worker whose entry names no pattern of the rules
takesRotationWithoutEntry(ph, dayName) ==
    fixedEntry(ph, dayName) = <<>> \/ fixedEntry(ph, dayName)[1].patternId = "FREE_DAY"

\* the two else branches of the fixed-pattern step: remainingPharmacists.push(ph)
takesRotation(ph, dayName) == fixedPatternFirstPass(ph, dayName) = <<>>

\* the outcomes of the shuffle of the remaining workers that are explored: all of
\* them for a list within MaxShuffled, the list as it is for a longer one
shuffles(list) ==
    IF Len(list) <= MaxShuffled THEN Orderings(list) ELSE {[i \in DOMAIN list |-> i]}

\* a retry loop without its cap
retriesForever(r) == TRUE

\* the condition of the retry loop
retryLoopContinues(r) == r < maxRetries

\* one iteration of the retry loop; the two shuffles are the choice of the orderings
RetryStep ==
    /\ pc = "retry"
    /\ retryLoopContinues(retry)
    /\ LET dayName == dayNames[dayIndex + 1]
           date == weekStart + dayIndex
           availablePharmacists == availableFirstPass(dayName, weekNumber)
           remainingPharmacists ==
               SelectSeq(availablePharmacists, LAMBDA ph : takesRotation(ph, dayName))
           fixedAssignments ==
               SelectSeq(availablePharmacists,
                         LAMBDA ph : fixedPatternFirstPass(ph, dayName) # <<>>)
           patterns == pharmacyRules.fixedShiftPatterns
       IN  \E p \in shuffles(remainingPharmacists), q \in Orderings(patterns) :
             LET shuffledPharmacists == Permuted(remainingPharmacists, p)
                 shuffledPatterns == Permuted(patterns, q)
                 throws == \E i \in DOMAIN shuffledPharmacists :
                              assignedPattern(patternUsage, shuffledPharmacists[i].id,
                                              shuffledPatterns) = <<>>
                 dayShifts ==
                     rotatedShifts(patternUsage, shuffledPharmacists, shuffledPatterns, date)
                     \o fixedShifts(fixedAssignments, dayName, date)
                 used == fixedUsage(rotatedUsage(patternUsage, shuffledPharmacists,
                                                 shuffledPatterns),
                                    fixedAssignments, dayName)
                 dayWarnings == warningsFor(shifts \o dayShifts, weekStart, date)
                 better == retry = 0 \/ Len(dayWarnings) < Len(bestWarnings)
             IN  IF throws
                 THEN /\ pc' = "error"
                      /\ UNCHANGED <<patternUsage, dayVars>>
                 ELSE IF dayWarnings = <<>>
                 THEN /\ bestDayShifts' = dayShifts
                      /\ bestRetry' = retry
                      /\ patternUsage' = used
                      /\ pc' = "commit"
                      /\ UNCHANGED <<retry, bestWarnings>>
                 ELSE /\ bestDayShifts' = IF better THEN dayShifts ELSE bestDayShifts
                      /\ bestWarnings' = IF better THEN dayWarnings ELSE bestWarnings
                      /\ bestRetry' = IF better THEN retry ELSE bestRetry
                      /\ patternUsage' = resetUsage(used, remainingPharmacists, shifts)
                      /\ retry' = retry + 1
                      /\ UNCHANGED pc
    /\ UNCHANGED <<inputs, pharmacyRules, schedules, weekStart, dayIndex, shifts, balance,
                   schedule, warnings, initial, resolver, runs, edits, validatorVars, rotation,
                   db>>
    /\ steps' = steps + 1

\* the retry loop ran out of iterations
RetryExhausted ==
    /\ pc = "retry"
    /\ ~retryLoopContinues(retry)
    /\ pc' = "commit"
    /\ UNCHANGED <<inputs, pharmacyRules, schedules, weekStart, dayIndex, shifts, patternUsage,
                   dayVars, balance, schedule, warnings, initial, resolver, runs, edits,
                   validatorVars, rotation, db>>
    /\ steps' = steps + 1

\* the tail of the day loop: the selected assignment joins the week
CommitDay ==
    /\ pc = "commit"
    /\ LET date == weekStart + dayIndex
           selected == IF Len(bestWarnings) > 0
                       THEN adjustPartTimeShiftsForWarnings(bestDayShifts, date, bestWarnings)
                       ELSE bestDayShifts
       IN  /\ patternUsage' = countDayPatterns(patternUsage, selected, {})
           /\ shifts' = shifts \o selected
           /\ bestDayShifts' = selected
    /\ dayIndex' = dayIndex + 1
    /\ pc' = "day"
    /\ UNCHANGED <<inputs, pharmacyRules, schedules, weekStart, retry, bestWarnings, bestRetry,
                   balance, schedule, warnings, initial, resolver, runs, edits, validatorVars,
                   rotation, db>>
    /\ steps' = steps + 1

\* the day loop is over: adjustPartTimeHours starts
StartBalance ==
    /\ pc = "day"
    /\ ~(dayIndex < Len(workdays))
    /\ pc' = "balance"
    /\ balance' = [NoBalance EXCEPT !.i = 1]
    /\ UNCHANGED <<inputs, pharmacyRules, schedules, weekStart, dayIndex, shifts, patternUsage,
                   dayVars, schedule, warnings, initial, resolver, runs, edits, validatorVars,
                   rotation, db>>
    /\ steps' = steps + 1

\* partTimePharmacists.forEach(ph => ...), up to the while loop
BalanceNext ==
    /\ pc = "balance"
    /\ ~balance.inLoop
    /\ balance.i <= Len(partTimePharmacists)
    /\ LET extraHours == extraHoursOf(shifts, partTimePharmacists[balance.i])
       IN  balance' = IF extraHours <= 6
                      THEN [balance EXCEPT !.i = @ + 1]
                      ELSE [balance EXCEPT !.inLoop = TRUE, !.remainingExtra = extraHours,
                                           !.processedDays = {}]
    /\ UNCHANGED <<inputs, pharmacyRules, schedules, pc, weekStart, dayIndex, shifts,
                   patternUsage, dayVars, schedule, warnings, initial, resolver, runs, edits,
                   validatorVars, rotation, db>>
    /\ steps' = steps + 1

\* the days of the pharmacist that are not processed yet
daysLeft(list, b) ==
    Len(workingDaysOf(list, partTimePharmacists[b.i].id)) - Cardinality(b.processedDays)

\* one iteration of the while loop of adjustPartTimeHours
BalanceRound ==
    /\ pc = "balance"
    /\ balance.inLoop
    /\ balanceContinues(balance.remainingExtra, balance.processedDays,
                        Len(workingDaysOf(shifts, partTimePharmacists[balance.i].id)))
    /\ \E st \in {balanceRound([list |-> shifts, remainingExtra |-> balance.remainingExtra,
                                processedDays |-> balance.processedDays],
                               partTimePharmacists[balance.i],
                               workingDaysOf(shifts, partTimePharmacists[balance.i].id),
                               balance.remainingExtra \div daysLeft(shifts, balance))} :
          /\ shifts' = st.list
          /\ balance' = [balance EXCEPT
                            !.remainingExtra = st.remainingExtra,
                            !.processedDays = st.processedDays,
                            !.exact = @ /\ Divides(daysLeft(shifts, balance),
                                                   balance.remainingExtra)]
    /\ UNCHANGED <<inputs, pharmacyRules, schedules, pc, weekStart, dayIndex, patternUsage,
                   dayVars, schedule, warnings, initial, resolver, runs, edits, validatorVars,
                   rotation, db>>
    /\ steps' = steps + 1

\* the while loop of one pharmacist ends
BalanceExit ==
    /\ pc = "balance"
    /\ balance.inLoop
    /\ ~balanceContinues(balance.remainingExtra, balance.processedDays,
                         Len(workingDaysOf(shifts, partTimePharmacists[balance.i].id)))
    /\ balance' = [balance EXCEPT !.i = @ + 1, !.inLoop = FALSE]
    /\ UNCHANGED <<inputs, pharmacyRules, schedules, pc, weekStart, dayIndex, shifts,
                   patternUsage, dayVars, schedule, warnings, initial, resolver, runs, edits,
                   validatorVars, rotation, db>>
    /\ steps' = steps + 1

\* generateWeekSchedule returns the week
ReturnWeek ==
    /\ pc = "balance"
    /\ ~balance.inLoop
    /\ balance.i > Len(partTimePharmacists)
    /\ schedule' = Schedule(weekStart, shifts, <<>>)
    /\ pc' = "validate"
    /\ UNCHANGED <<inputs, pharmacyRules, schedules, weekStart, dayIndex, shifts, patternUsage,
                   dayVars, balance, warnings, initial, resolver, runs, edits, validatorVars,
                   rotation, db>>
    /\ steps' = steps + 1

\* generateSchedule validates the week and decides whether to call the resolver;
\* tryResolveWarnings returns null at once when no pattern is defined
ValidateWeek ==
    /\ pc = "validate"
    /\ LET w == validateSchedule(schedule)
       IN  /\ warnings' = w
           /\ initial' = Schedule(weekStart, schedule.shifts, w)
           /\ IF hasWarningsIn(w) /\ ~noPatternsDefined
              THEN /\ pc' = "resolve"
                   /\ resolver' = [NoResolver EXCEPT !.bestWarningCount = warningCount(w),
                                                     !.originalWarningCount = warningCount(w)]
              ELSE /\ pc' = "return"
                   /\ resolver' = NoResolver
    /\ UNCHANGED <<inputs, pharmacyRules, schedules, weekStart, dayIndex, shifts, patternUsage,
                   dayVars, balance, schedule, runs, edits, validatorVars, rotation, db>>
    /\ steps' = steps + 1

\* a resolver that keeps every attempt, better or not
keepsAnyAttempt(testWarningCount, bestWarningCount) == TRUE

\* "if (testWarningCount < bestWarningCount)"
keepsAttempt(testWarningCount, bestWarningCount) == testWarningCount < bestWarningCount

\* the condition of the attempt loop
attemptLoopContinues(attempt) == attempt < maxAttempts

\* one attempt of tryResolveWarnings
ResolveAttempt ==
    /\ pc = "resolve"
    /\ attemptLoopContinues(resolver.attempt)
    /\ ~resolver.stopped
    /\ \E testSchedule \in {generateWeekScheduleWithRotation(weekStart, weekNumber,
                                attemptTracker(resolver.attempt))} :
       \E testWarningCount \in
              {warningCount(validateSchedule(Schedule(weekStart, testSchedule.shifts, <<>>)))} :
       \E kept \in {keepsAttempt(testWarningCount, resolver.bestWarningCount)} :
          resolver' = [resolver EXCEPT
                          !.attempt = @ + 1,
                          !.best = IF kept
                                   THEN <<Schedule(weekStart, testSchedule.shifts, <<>>)>>
                                   ELSE @,
                          !.bestWarningCount = IF kept THEN testWarningCount ELSE @,
                          !.stopped = kept /\ testWarningCount = 0,
                          !.exact = @ /\ testSchedule.exact]
    /\ UNCHANGED <<inputs, pharmacyRules, schedules, pc, weekStart, dayIndex, shifts,
                   patternUsage, dayVars, balance, schedule, warnings, initial, runs, edits,
                   validatorVars, rotation, db>>
    /\ steps' = steps + 1

\* a substitution that would keep the warnings of the week it replaces
staleWarnings(substituted, previousWarnings) == previousWarnings

\* "warnings = this.validateSchedule(schedule)" after the substitution
revalidate(substituted, previousWarnings) == validateSchedule(substituted)

\* tryResolveWarnings returns; generateSchedule takes the schedule it returned, if any
ResolveReturn ==
    /\ pc = "resolve"
    /\ ~attemptLoopContinues(resolver.attempt) \/ resolver.stopped
    /\ IF resolver.best # <<>>
       THEN /\ schedule' = resolver.best[1]
            /\ warnings' = revalidate(resolver.best[1], warnings)
       ELSE UNCHANGED <<schedule, warnings>>
    /\ pc' = "return"
    /\ UNCHANGED <<inputs, pharmacyRules, schedules, weekStart, dayIndex, shifts, patternUsage,
                   dayVars, balance, initial, resolver, runs, edits, validatorVars, rotation, db>>
    /\ steps' = steps + 1

\* "schedule.warnings = warnings; schedules.push(schedule)"
ReturnSchedule ==
    /\ pc = "return"
    /\ schedule' = [schedule EXCEPT !.warnings = warnings]
    /\ pc' = "done"
    /\ UNCHANGED <<inputs, pharmacyRules, schedules, weekStart, dayIndex, shifts, patternUsage,
                   dayVars, balance, warnings, initial, resolver, runs, edits, validatorVars,
                   rotation, db>>
    /\ steps' = steps + 1

\* allSchedules.findIndex(s => s.weekStart === weekStartStr)
existingIndex(all, start) == FirstIndex(all, LAMBDA s : s.weekStart = start)

\* the admin page merges the new week into the stored schedules
mergeSchedule(all, new) ==
    IF existingIndex(all, new.weekStart) > 0
    THEN [all EXCEPT ![existingIndex(all, new.weekStart)] = new]
    ELSE Append(all, new)

\* db.schedules.bulkPut(schedules): every row is added or replaces the row with
\* its primary key; the key is the id, `schedule_${weekStart}` wherever a schedule
\* is created, so the weekStart stands for it; no row is deleted
bulkPut(table, list) ==
    {row \in table : \A i \in DOMAIN list : list[i].weekStart # row.weekStart}
    \cup {list[i] : i \in {j \in DOMAIN list :
                               \A k \in DOMAIN list : k > j => list[k].weekStart # list[j].weekStart}}

\* db.schedules.toArray(): the rows in the order of the primary key
toArray(table) ==
    [k \in 1..Cardinality(table) |->
        CHOOSE row \in table :
            Cardinality({other \in table : other.weekStart < row.weekStart}) = k - 1]

\* the tail of the page's generateSchedule: the stored schedules are read with
\* getSchedulesAsync, the new week is merged in, saveSchedules and setSchedules
StoreSchedule ==
    /\ pc = "done"
    /\ schedules' = mergeSchedule(toArray(db), schedule)
    /\ db' = bulkPut(db, schedules')
    /\ pc' = "idle"
    /\ UNCHANGED <<inputs, pharmacyRules, weekStart, dayIndex, shifts, patternUsage, dayVars,
                   balance, schedule, warnings, initial, resolver, runs, edits, validatorVars,
                   rotation>>
    /\ UNCHANGED steps

\* the worker and the day the edit dialog is opened on
EditKinds == {"remove", "custom", "pattern"}
EditDays == {0}
EditWorkers == {activePharmacists[1].id}

\* what ShiftEditModal.handleSave hands to onSave, and HourlyCalendar to onShiftUpdate
updatedShiftsOf(kind, pharmacistId, date) ==
    CASE kind = "remove" ->
           <<[Shift(pharmacistId, date, <<0, 0>>, <<0, 0>>, "morning", "")
              EXCEPT !.id = <<"temp_remove">>]>>
      [] kind = "custom" ->
           <<Shift(pharmacistId, date, <<9, 0>>, <<10, 0>>, "morning", "")>>
      [] kind = "pattern" ->
           LET pattern == pharmacyRules.fixedShiftPatterns[1]
           IN  <<Shift(pharmacistId, date, pattern.morningShift.startTime,
                       pattern.morningShift.endTime, "morning", pattern.id),
                 Shift(pharmacistId, date, pattern.afternoonShift.startTime,
                       pattern.afternoonShift.endTime, "afternoon", pattern.id)>>

\* onShiftUpdate of the admin page
ManualEdit(start, pharmacistId, day, kind) ==
    /\ pc = "idle"
    /\ edits < MaxEdits
    /\ kind = "pattern" => pharmacyRules.fixedShiftPatterns # <<>>
    /\ LET date == start + day
           updatedShifts == updatedShiftsOf(kind, pharmacistId, date)
           isRemoval == Len(updatedShifts) = 1 /\ updatedShifts[1].id = <<"temp_remove">>
           found == existingIndex(schedules, start)
           weekSchedule == IF found > 0 THEN schedules[found] ELSE Schedule(start, <<>>, <<>>)
           kept == SelectSeq(weekSchedule.shifts,
                             LAMBDA s : ~(s.pharmacistId = pharmacistId /\ s.date = date))
           edited == [weekSchedule EXCEPT
                         !.shifts = IF isRemoval THEN kept ELSE kept \o updatedShifts]
           updated == [edited EXCEPT !.warnings = validateSchedule(edited)]
       IN  \* a removal is offered on a shift of the stored week
           /\ isRemoval => /\ found > 0
                           /\ \E i \in DOMAIN weekSchedule.shifts :
                                 /\ weekSchedule.shifts[i].pharmacistId = pharmacistId
                                 /\ weekSchedule.shifts[i].date = date
           /\ schedules' = IF found > 0 THEN [schedules EXCEPT ![found] = updated]
                           ELSE Append(schedules, updated)
    /\ db' = bulkPut(db, schedules')
    /\ edits' = edits + 1
    /\ UNCHANGED <<inputs, pharmacyRules, pc, weekStart, dayIndex, shifts, patternUsage,
                   dayVars, balance, schedule, warnings, initial, resolver, runs, validatorVars,
                   rotation>>
    /\ UNCHANGED steps

\* clearCurrentWeek of the admin page, confirmed in the dialog: the viewed week is
\* filtered out of the page's list, and the list is saved with saveSchedules
ClearWeek(start) ==
    /\ pc = "idle"
    /\ schedules' = SelectSeq(schedules, LAMBDA s : s.weekStart # start)
    /\ db' = bulkPut(db, schedules')
    /\ UNCHANGED <<inputs, pharmacyRules, pc, weekStart, dayIndex, shifts, patternUsage,
                   dayVars, balance, schedule, warnings, initial, resolver, runs, edits,
                   validatorVars, rotation>>
    /\ UNCHANGED steps

\* the steps of a running generateSchedule call
GenerateStep ==
    \/ BeginDay
    \/ RetryStep
    \/ RetryExhausted
    \/ CommitDay
    \/ StartBalance
    \/ BalanceNext
    \/ BalanceRound
    \/ BalanceExit
    \/ ReturnWeek
    \/ ValidateWeek
    \/ ResolveAttempt
    \/ ResolveReturn
    \/ ReturnSchedule

Generate == \E start \in WeekStarts : StartGenerate(start)

Edit ==
    \E start \in WeekStarts, pharmacistId \in EditWorkers, day \in EditDays, kind \in EditKinds :
        ManualEdit(start, pharmacistId, day, kind)

Next ==
    \/ Generate
    \/ GenerateStep
    \/ StoreSchedule
    \/ Edit

Spec == Init /\ [][Next]_vars

Clear == \E start \in WeekStarts : ClearWeek(start)

\* the admin page with its three operations on the stored schedules
NextA ==
    \/ Next
    \/ Clear

SpecA == Init /\ [][NextA]_vars

-----------------------------------------------------------------------------
(* The validator on its own: validateSchedule called on arbitrary shift    *)
(* lists, as the admin page calls it after manual edits                    *)

MaxShifts == 3     \* longest shift list handed to the validator
MaxCalls == 2      \* validateSchedule calls on one schedule object

ValidatorPharmacists ==
    <<Pharmacist("w1", 40, "", -1, TRUE, <<>>),
      Pharmacist("w2", 40, "", -1, TRUE, <<>>),
      Pharmacist("w3", 30, "", -1, TRUE, <<>>)>>

ValidatorRules ==
    StdRules(<<PatternA>>, <<Requirement(<<9, 0>>, <<12, 0>>, 2),
                             Requirement(<<10, 15>>, <<11, 0>>, 1)>>)

\* the shifts the lists are drawn from
ShiftPool ==
    {Shift("w1", 0, <<9, 0>>, <<10, 0>>, "morning", ""),
     Shift("w1", 0, <<10, 0>>, <<11, 0>>, "afternoon", ""),
     Shift("w2", 0, <<9, 0>>, <<12, 0>>, "morning", ""),
     Shift("w2", 0, <<10, 30>>, <<12, 0>>, "afternoon", ""),
     Shift("w3", 0, <<9, 0>>, <<19, 30>>, "full", ""),
     Shift("w1", 1, <<9, 0>>, <<12, 0>>, "morning", "")}

ShiftLists == UNION {[1..n -> ShiftPool] : n \in 0..MaxShifts}

InitV ==
    /\ scenario = 0
    /\ pharmacists = ValidatorPharmacists
    /\ pharmacyRules = ValidatorRules
    /\ schedules = <<>>
    /\ db = {}
    /\ pc = "validator"
    /\ weekStart = 0
    /\ dayIndex = 0
    /\ retry = 0
    /\ shifts = <<>>
    /\ patternUsage = <<>>
    /\ bestDayShifts = <<>>
    /\ bestWarnings = <<>>
    /\ bestRetry = -1
    /\ balance = NoBalance
    /\ schedule \in {Schedule(0, list, <<>>) : list \in ShiftLists}
    /\ warnings = <<>>
    /\ initial = NoSchedule
    /\ resolver = NoResolver
    /\ runs = 0
    /\ edits = 0
    /\ steps = 0
    /\ vcalls = 0
    /\ vprev = <<>>
    /\ rotation = NoRotation

\* "weekSchedule.warnings = generator.validateSchedule(weekSchedule)"
ValidateCall ==
    /\ pc = "validator"
    /\ vcalls < MaxCalls
    /\ \E w \in {validateSchedule(schedule)} :
          /\ warnings' = w
          /\ schedule' = [schedule EXCEPT !.warnings = w]
    /\ vprev' = warnings
    /\ shifts' = schedule.shifts
    /\ vcalls' = vcalls + 1
    /\ UNCHANGED <<inputs, pharmacyRules, schedules, pc, weekStart, dayIndex, patternUsage,
                   dayVars, balance, initial, resolver, runs, edits, rotation, db>>
    /\ UNCHANGED steps

\* the same shifts reach the validator in another order
Reorder ==
    /\ pc = "validator"
    /\ vcalls >= 1
    /\ edits < MaxEdits
    /\ \E p \in Orderings(schedule.shifts) :
          /\ Permuted(schedule.shifts, p) # schedule.shifts
          /\ schedule' = Schedule(schedule.weekStart, Permuted(schedule.shifts, p), <<>>)
    /\ initial' = schedule
    /\ vcalls' = 0
    /\ edits' = edits + 1
    /\ UNCHANGED <<inputs, pharmacyRules, schedules, pc, weekStart, dayIndex, shifts,
                   patternUsage, dayVars, balance, warnings, resolver, runs, vprev, rotation, db>>
    /\ UNCHANGED steps

NextV ==
    \/ ValidateCall
    \/ Reorder

SpecV == InitV /\ [][NextV]_vars

-----------------------------------------------------------------------------
(* Generation under fair scheduling: a started generateSchedule call keeps *)
(* running, it is one synchronous call                                     *)

\* a generateSchedule call is in progress
Running == pc \in {"day", "retry", "commit", "balance", "validate", "resolve", "return"}

\* the call in progress takes its next step: every step of GenerateStep counts in
\* steps and nothing else does, and in every position one of them can be taken
\* the pipeline on the configurations of the named scenarios
InitS ==
    /\ scenario \in NamedScenarioIds
    /\ pharmacists = ScenarioPharmacists(scenario)
    /\ pharmacyRules = ScenarioRules(scenario)
    /\ schedules = <<>>
    /\ db = {}
    /\ pc = "idle"
    /\ weekStart = 0
    /\ dayIndex = 0
    /\ retry = 0
    /\ shifts = <<>>
    /\ patternUsage = <<>>
    /\ bestDayShifts = <<>>
    /\ bestWarnings = <<>>
    /\ bestRetry = -1
    /\ balance = NoBalance
    /\ schedule = NoSchedule
    /\ warnings = <<>>
    /\ initial = NoSchedule
    /\ resolver = NoResolver
    /\ runs = 0
    /\ edits = 0
    /\ steps = 0
    /\ vcalls = 0
    /\ vprev = <<>>
    /\ rotation = NoRotation

\* generateSchedule calls from the admin page, without manual edits
NextS ==
    \/ Generate
    \/ GenerateStep
    \/ StoreSchedule

SpecS == InitS /\ [][NextS]_vars

-----------------------------------------------------------------------------
(* generateWeekScheduleWithRotation, day by day                            *)

\* the configurations on which the resolver calls the rotation path
RotationScenarioIds == {1, 2, 5, 6, 8, 9, 11, 12, 13}

\* the entry of generateWeekScheduleWithRotation in the first attempt of the resolver:
\* generateSchedule has adapted the break, the two ledgers are initialised
InitR ==
    /\ scenario \in RotationScenarioIds
    /\ pharmacists = ScenarioPharmacists(scenario)
    /\ pharmacyRules = adaptBreakDuration(ScenarioRules(scenario))
    /\ schedules = <<>>
    /\ db = {}
    /\ pc = "rotation"
    /\ weekStart \in WeekStarts
    /\ dayIndex = 0
    /\ retry = 0
    /\ shifts = <<>>
    /\ patternUsage = <<>>
    /\ bestDayShifts = <<>>
    /\ bestWarnings = <<>>
    /\ bestRetry = -1
    /\ balance = NoBalance
    /\ schedule = NoSchedule
    /\ warnings = <<>>
    /\ initial = NoSchedule
    /\ resolver = NoResolver
    /\ runs = 1
    /\ edits = 0
    /\ steps = 0
    /\ vcalls = 0
    /\ vprev = <<>>
    /\ rotation = rotationStart(attemptTracker(0))

\* one iteration of the day loop of generateWeekScheduleWithRotation
RotationDay ==
    /\ pc = "rotation"
    /\ dayIndex < Len(workdays)
    /\ rotation' = rotationDay(rotation, weekStart + dayIndex,
                               getAvailablePharmacists(dayNames[dayIndex + 1], weekNumber,
                                                       rotation.weeklyHours),
                               dayNames[dayIndex + 1])
    /\ dayIndex' = dayIndex + 1
    /\ UNCHANGED <<inputs, pharmacyRules, schedules, pc, weekStart, shifts, patternUsage,
                   dayVars, balance, schedule, warnings, initial, resolver, runs, edits,
                   validatorVars, db>>
    /\ UNCHANGED steps

\* generateWeekScheduleWithRotation returns the week to tryResolveWarnings, which
\* validates it and goes on to the next attempt unless no warning is left
RotationReturn ==
    /\ pc = "rotation"
    /\ dayIndex = Len(workdays)
    /\ schedule' = Schedule(weekStart, rotation.shifts, <<>>)
    /\ \E testWarningCount \in
              {warningCount(validateSchedule(Schedule(weekStart, rotation.shifts, <<>>)))} :
          /\ resolver' = [resolver EXCEPT !.attempt = @ + 1,
                                          !.stopped = testWarningCount = 0]
          /\ IF testWarningCount = 0 \/ ~attemptLoopContinues(resolver.attempt + 1)
             THEN /\ pc' = "rotated"
                  /\ UNCHANGED <<dayIndex, rotation>>
             ELSE /\ dayIndex' = 0
                  /\ rotation' = rotationStart(attemptTracker(resolver.attempt + 1))
                  /\ UNCHANGED pc
    /\ UNCHANGED <<inputs, pharmacyRules, schedules, weekStart, shifts, patternUsage, dayVars,
                   balance, warnings, initial, runs, edits, validatorVars, db>>
    /\ UNCHANGED steps

NextR ==
    \/ RotationDay
    \/ RotationReturn

SpecR == InitR /\ [][NextR]_vars


FairSpec == Init /\ [][Next]_vars /\ WF_steps(Running /\ steps' = steps + 1)

-----------------------------------------------------------------------------
(* Properties                                                              *)

\* the dates of the week a schedule is for
WeekDates(sched) == {sched.weekStart + k : k \in 0..5}

\* the warnings a map holds for a date
ListOn(w, date) == IF date \in DOMAIN w THEN w[date] ELSE <<>>

\* brute-force reference: the sample instants of a requirement
SampleInstants(req) ==
    {t \in (req.startTime[1] * 60 + req.startTime[2])..(req.endTime[1] * 60 + req.endTime[2] - 1) :
        (t - (req.startTime[1] * 60 + req.startTime[2])) % 30 = 0}

\* brute-force reference: fewer than the required distinct pharmacists work at t
UnderStaffed(list, date, req, t) ==
    Cardinality({list[j].pharmacistId : j \in
        {k \in DOMAIN list :
            /\ list[k].date = date
            /\ list[k].startTime[1] * 60 + list[k].startTime[2] <= t
            /\ t < list[k].endTime[1] * 60 + list[k].endTime[2]}}) < req.requiredPharmacists

\* brute-force reference: the number of maximal runs of under-staffed sample instants
RefRuns(list, date, req) ==
    Cardinality({t \in SampleInstants(req) :
        /\ UnderStaffed(list, date, req, t)
        /\ (t - 30) \in SampleInstants(req) => ~UnderStaffed(list, date, req, t - 30)})

\* the number of "Insufficient coverage" warnings reported on a date for a requirement
ReportedRuns(w, date, req) ==
    Cardinality({k \in DOMAIN ListOn(w, date) :
        /\ ListOn(w, date)[k].kind = "Insufficient coverage"
        /\ ListOn(w, date)[k].reqFrom = req.startTime
        /\ ListOn(w, date)[k].reqTo = req.endTime
        /\ ListOn(w, date)[k].of = req.requiredPharmacists})

\* C1: for every day of the week and every staffing requirement, the number of
\* "Insufficient coverage" warnings validateSchedule emits equals the number of
\* maximal runs of under-staffed 30-minute sample instants, counted by brute force
CoverageCountMatchesReference ==
    (pc = "validator" /\ vcalls >= 1) =>
        \A d \in WeekDates(schedule) :
            \A r \in DOMAIN pharmacyRules.staffingRequirements :
                ReportedRuns(warnings, d, pharmacyRules.staffingRequirements[r])
                    = RefRuns(schedule.shifts, d, pharmacyRules.staffingRequirements[r])

\* a validated day on which one requirement is under-staffed in two separate runs
CoverageTwoRunsValidated ==
    /\ pc = "validator"
    /\ vcalls >= 1
    /\ \E r \in DOMAIN pharmacyRules.staffingRequirements :
          RefRuns(schedule.shifts, 0, pharmacyRules.staffingRequirements[r]) >= 2

\* C2: after any sequence of generations and manual edits or removals, the
\* warnings stored with a week equal validateSchedule of its current shifts,
\* also when the resolver substituted another schedule
StoredWarningsAreFresh ==
    /\ \A i \in DOMAIN schedules :
          schedules[i].warnings
              = validateSchedule(Schedule(schedules[i].weekStart, schedules[i].shifts, <<>>))
    /\ pc = "done" =>
          schedule.warnings
              = validateSchedule(Schedule(schedule.weekStart, schedule.shifts, <<>>))

\* a week the resolver substituted is stored, and a manual edit on it left warnings
SubstitutedWeekEdited ==
    /\ pc = "idle"
    /\ resolver.best # <<>>
    /\ edits = 1
    /\ Len(schedules) = 1
    /\ schedules[1].weekStart = weekStart
    /\ schedules[1].shifts # resolver.best[1].shifts
    /\ hasWarningsIn(schedules[1].warnings)

\* the sum over the days of the lengths of the warning lists
TotalWarnings(w) ==
    SumSeq([k \in 1..(7 * Cardinality(WeekStarts)) |-> Len(ListOn(w, k - 1))])

\* C3: the resolver never returns a schedule with more warnings in total than the
\* week it started from, so the week generateSchedule returns never has more
\* warnings than the week first generated
ResolverNeverWorse ==
    /\ (pc = "resolve" /\ resolver.best # <<>>) =>
          TotalWarnings(validateSchedule(resolver.best[1])) <= TotalWarnings(initial.warnings)
    /\ pc \in {"return", "done"} =>
          TotalWarnings(validateSchedule(Schedule(schedule.weekStart, schedule.shifts, <<>>)))
              <= TotalWarnings(initial.warnings)

\* a returned week that the resolver substituted, with fewer warnings than before
ResolverImproved ==
    /\ pc = "done"
    /\ resolver.best # <<>>
    /\ schedule.shifts = resolver.best[1].shifts
    /\ TotalWarnings(schedule.warnings) < TotalWarnings(initial.warnings)

\* C4: generateSchedule never ends in an error: it returns a schedule for the
\* requested week whatever the workers and rules, violations being warnings only
NeverAnError ==
    /\ pc # "error"
    /\ pc = "done" => schedule.weekStart = weekStart

\* a week returned with warnings although no pattern is defined
ReturnedWithoutPatterns ==
    /\ pc = "done"
    /\ pharmacyRules.fixedShiftPatterns = <<>>
    /\ hasWarningsIn(schedule.warnings)

Minutes(shift) ==
    (shift.endTime[1] * 60 + shift.endTime[2]) - (shift.startTime[1] * 60 + shift.startTime[2])

\* C5: no morning or afternoon shift of a generated schedule is shorter than two hours
NoShortSubShift ==
    pc = "done" =>
        \A i \in DOMAIN schedule.shifts :
            schedule.shifts[i].type \in {"morning", "afternoon"} =>
                Minutes(schedule.shifts[i]) >= 120

\* the minutes a worker is booked for in a shift list
BookedMinutes(list, id) ==
    SumSeq([k \in DOMAIN list |-> IF list[k].pharmacistId = id THEN Minutes(list[k]) ELSE 0])

FreeDayConfigured(ph) ==
    \/ ph.freeDay # ""
    \/ \E k \in DOMAIN ph.fixedDayPatterns : ph.fixedDayPatterns[k].patternId = "FREE_DAY"

\* C6: in the returned week every part-time worker with a free day has shifts that
\* add up to weeklyHours, within 0.1 hours
PartTimeHoursOnTarget ==
    pc = "done" =>
        \A i \in DOMAIN pharmacists :
            (/\ pharmacists[i].isActive
             /\ pharmacists[i].weeklyHours < 40
             /\ FreeDayConfigured(pharmacists[i])
             /\ BookedMinutes(schedule.shifts, pharmacists[i].id) > 0) =>
                Abs(BookedMinutes(schedule.shifts, pharmacists[i].id)
                    - pharmacists[i].weeklyHours * 60) <= 6

\* the worker of a shift must not work on its date
Unavailable(ph, date, start) ==
    \/ ~ph.isActive
    \/ ph.freeDay = dayNames[date - start + 1]
    \/ \E k \in DOMAIN ph.fixedDayPatterns :
          /\ ph.fixedDayPatterns[k].patternId = "FREE_DAY"
          /\ ph.fixedDayPatterns[k].dayOfWeek = dayNames[date - start + 1]
    \/ dayNames[date - start + 1] = "Saturday" /\ ph.freeSaturdayWeek = weekNumber

\* C7: a returned schedule has no shift of an inactive worker, none on a worker's
\* free day, and none on a Saturday of a worker whose freeSaturdayWeek is the week number
NoShiftWhenUnavailable ==
    pc = "done" =>
        \A i \in DOMAIN schedule.shifts :
            \A k \in DOMAIN pharmacists :
                pharmacists[k].id = schedule.shifts[i].pharmacistId =>
                    ~Unavailable(pharmacists[k], schedule.shifts[i].date, schedule.weekStart)

\* a returned week with Saturday shifts, for a roster with an inactive worker, a
\* worker off that Saturday by rotation and a worker on a free day
SaturdayWorkedAroundAbsences ==
    /\ pc = "done"
    /\ \E i \in DOMAIN schedule.shifts : schedule.shifts[i].date = schedule.weekStart + 5
    /\ \E k \in DOMAIN pharmacists : ~pharmacists[k].isActive
    /\ \E k \in DOMAIN pharmacists :
          pharmacists[k].isActive /\ pharmacists[k].freeSaturdayWeek = weekNumber
    /\ \E k \in DOMAIN pharmacists : pharmacists[k].isActive /\ FreeDayConfigured(pharmacists[k])

OrderIndependent ==
    (pc = "validator" /\ edits >= 1 /\ vcalls >= 1) => warnings = initial.warnings

\* C10, the bounds: the retry loop of a day and the attempts of the resolver stay
\* within their caps, and the balancer never marks more days than the worker has
LoopBounds ==
    /\ steps <= 6 * (50 + 3) + 8 * Len(pharmacists) + 50 + 5
    /\ retry <= 50
    /\ resolver.attempt
          <= Min(Len(pharmacyRules.fixedShiftPatterns)
                 * Cardinality({k \in DOMAIN pharmacists :
                       pharmacists[k].isActive /\ pharmacists[k].fixedDayPatterns = <<>>}) * 2,
                 50)
    /\ (pc = "balance" /\ balance.inLoop) =>
          Cardinality(balance.processedDays)
              <= Cardinality({shifts[k].date : k \in
                    {j \in DOMAIN shifts :
                        shifts[j].pharmacistId = partTimePharmacists[balance.i].id}})

\* C10, the balancer: a round runs only while more than 0.1h is left and a day is
\* unprocessed, and marks at least one more day; the loop is left only otherwise
BalancerStep ==
    LET daysCount == Cardinality({shifts[k].date : k \in
                        {j \in DOMAIN shifts :
                            shifts[j].pharmacistId = partTimePharmacists[balance.i].id}})
        open == balance.remainingExtra > 6 /\ Cardinality(balance.processedDays) < daysCount
    IN  (pc = "balance" /\ balance.inLoop) =>
            /\ (balance'.inLoop /\ balance' # balance) =>
                  /\ open
                  /\ Cardinality(balance'.processedDays) > Cardinality(balance.processedDays)
            /\ ~balance'.inLoop => ~open

\* C10: generation of a week always terminates, its loops within their bounds
GenerationTerminates ==
    /\ []LoopBounds
    /\ [][BalancerStep]_vars
    /\ (pc = "day" ~> pc = "done")

\* a returned week for which the retry loop ran out, the resolver used up its
\* attempts and the balancer marked days
AllLoopsExhausted ==
    /\ pc = "done"
    /\ retry = 50
    /\ resolver.attempt > 0
    /\ resolver.attempt = maxAttempts
    /\ balance.processedDays # {}

-----------------------------------------------------------------------------
(* The order of the stages                                                 *)

\* C11: the week generateSchedule returns, a week substituted by the Warning
\* Resolver included, is the list of shifts the Hour Balancer has produced
ReturnedWeekWasBalanced ==
    pc = "done" => schedule.shifts = shifts

-----------------------------------------------------------------------------
(* Days with too few workers                                               *)

\* the workers left on a date after the inactive, free-day and Saturday-rotation
\* exclusions
AvailableOn(date, start) ==
    {k \in DOMAIN pharmacists : ~Unavailable(pharmacists[k], date, start)}

\* C12: a day on which fewer than three workers are available has no shift in the
\* returned week, no error is raised for it, and the later days are still generated
NoShiftOnUnderstaffedDay ==
    /\ pc # "error"
    /\ pc = "done" =>
          \A date \in WeekDates(schedule) :
              Cardinality(AvailableOn(date, schedule.weekStart)) < 3 =>
                  \A i \in DOMAIN schedule.shifts : schedule.shifts[i].date # date

\* a week substituted by the resolver in which understaffed days were skipped and a
\* later day has shifts
UnderstaffedDaysSkipped ==
    /\ pc = "done"
    /\ resolver.best # <<>>
    /\ \E date \in WeekDates(schedule) :
          /\ Cardinality(AvailableOn(date, schedule.weekStart)) < 3
          /\ \E i \in DOMAIN schedule.shifts : schedule.shifts[i].date > date

-----------------------------------------------------------------------------
(* Fixed day patterns                                                      *)

\* the patterns of the rules named by a worker's entry for a day
NamedPatterns(ph, dayName) ==
    {p \in Range(pharmacyRules.fixedShiftPatterns) :
        \E k \in DOMAIN ph.fixedDayPatterns :
            /\ ph.fixedDayPatterns[k].dayOfWeek = dayName
            /\ ph.fixedDayPatterns[k].patternId = p.id}

\* what a shift says to the reader of a schedule
Booking(shift) ==
    <<shift.startTime, shift.endTime, shift.type, shift.patternId>>

\* the two sub-shifts of a pattern
PatternBookings(p) ==
    {<<p.morningShift.startTime, p.morningShift.endTime, "morning", p.id>>,
     <<p.afternoonShift.startTime, p.afternoonShift.endTime, "afternoon", p.id>>}

\* C13: in a returned week, first-pass or substituted, the shifts of a worker on a
\* day for which the worker has a fixed entry naming an existing pattern are exactly
\* the morning and the afternoon sub-shift of that pattern, with its pattern id
FixedPatternKept ==
    pc = "done" =>
        \A k \in DOMAIN pharmacists : \A d \in 0..5 :
            \A p \in NamedPatterns(pharmacists[k], dayNames[d + 1]) :
                LET mine == {i \in DOMAIN schedule.shifts :
                                /\ schedule.shifts[i].pharmacistId = pharmacists[k].id
                                /\ schedule.shifts[i].date = schedule.weekStart + d}
                IN  mine # {} =>
                       /\ Cardinality(mine) = 2
                       /\ {Booking(schedule.shifts[i]) : i \in mine} = PatternBookings(p)

-----------------------------------------------------------------------------
(* The inputs of a generation                                              *)

\* C14: when generateSchedule has returned, every field of the worker records and of
\* the pharmacy rules it was given has the value it had before the call
InputsReadOnly ==
    pc = "done" =>
        /\ pharmacists = ScenarioPharmacists(scenario)
        /\ pharmacyRules = ScenarioRules(scenario)

-----------------------------------------------------------------------------
(* When the resolver runs and when it stops                                *)

\* an attempt of the resolver has validated with no warning
ZeroReached == resolver.attempt > 0 /\ resolver.bestWarningCount = 0

ResolverRunsOnWarnings ==
    (pc = "resolve" \/ resolver.attempt > 0) => TotalWarnings(initial.warnings) >= 1

ZeroWeekReturned ==
    (pc = "done" /\ ZeroReached) =>
        /\ resolver.best # <<>>
        /\ schedule.shifts = resolver.best[1].shifts
        /\ TotalWarnings(schedule.warnings) = 0

NoAttemptAfterZero ==
    (pc = "resolve" /\ ZeroReached) => resolver' = resolver

\* C19: the resolver runs only when the first week has a warning; once an attempt
\* validates with no warning it makes no further attempt and that week is returned
ResolverRunsAndStops ==
    /\ []ResolverRunsOnWarnings
    /\ []ZeroWeekReturned
    /\ [][NoAttemptAfterZero]_vars

\* a returned week that the resolver found free of warnings before using up its
\* attempts
ResolverStoppedEarly ==
    /\ pc = "done"
    /\ ZeroReached
    /\ resolver.attempt < maxAttempts
    /\ TotalWarnings(initial.warnings) >= 1

-----------------------------------------------------------------------------
(* Fixed entries that name no pattern of the rules                         *)

PatternIds == {pharmacyRules.fixedShiftPatterns[i].id : i \in DOMAIN pharmacyRules.fixedShiftPatterns}

\* the worker's entry for the day names a pattern the rules do not have
UnknownEntry(ph, dayName) ==
    \E k \in DOMAIN ph.fixedDayPatterns :
        /\ ph.fixedDayPatterns[k].dayOfWeek = dayName
        /\ ph.fixedDayPatterns[k].patternId \notin PatternIds \cup {"FREE_DAY"}

\* the worker has shifts on the date, each of a pattern of the rules
RotatedOn(list, id, date) ==
    /\ \E i \in DOMAIN list : list[i].pharmacistId = id /\ list[i].date = date
    /\ \A i \in DOMAIN list :
          (list[i].pharmacistId = id /\ list[i].date = date) => list[i].patternId \in PatternIds

\* every generated day of the week gives the workers with such an entry their shifts
UnknownEntriesRotated(sched) ==
    \A k \in DOMAIN pharmacists : \A date \in WeekDates(sched) :
        (/\ UnknownEntry(pharmacists[k], dayNames[date - sched.weekStart + 1])
         /\ k \in AvailableOn(date, sched.weekStart)
         /\ Cardinality(AvailableOn(date, sched.weekStart)) >= 3
         /\ PatternIds # {}) =>
            RotatedOn(sched.shifts, pharmacists[k].id, date)

\* C15: a fixed-day entry that names a pattern id the rules do not have raises no
\* error, and the worker is given shifts of a pattern of the rules on that day by
\* the rotation, in the first week and in the week returned
UnknownPatternTakesRotation ==
    /\ pc # "error"
    /\ pc = "done" => UnknownEntriesRotated(initial) /\ UnknownEntriesRotated(schedule)

\* a week substituted by the resolver in which a worker whose entries name an
\* unknown pattern has shifts
UnknownPatternSubstituted ==
    /\ pc = "done"
    /\ resolver.best # <<>>
    /\ \E k \in DOMAIN pharmacists :
          /\ UnknownEntry(pharmacists[k], "Monday")
          /\ RotatedOn(schedule.shifts, pharmacists[k].id, schedule.weekStart)
          /\ RotatedOn(initial.shifts, pharmacists[k].id, schedule.weekStart)

-----------------------------------------------------------------------------
(* Scenario A                                                              *)

\* the 30-minute instants from 09:00 up to closing at 19:30, in minutes
HalfHours == {540 + 30 * n : n \in 0..20}

\* the workers at work at an instant of a date
WorkersAt(list, date, t) ==
    {list[i].pharmacistId : i \in {j \in DOMAIN list :
                                      /\ list[j].date = date
                                      /\ timeToMinutes(list[j].startTime) <= t
                                      /\ t < timeToMinutes(list[j].endTime)}}

\* C17: on scenario A every week generateSchedule returns has at least two workers
\* at every 30-minute instant from 09:00 to 19:30 of each day, and no warning
ScenarioAFullyCovered ==
    (pc = "done" /\ scenario = 9) =>
        /\ TotalWarnings(schedule.warnings) = 0
        /\ \A date \in WeekDates(schedule) : \A t \in HalfHours :
              Cardinality(WorkersAt(schedule.shifts, date, t)) >= 2

-----------------------------------------------------------------------------
(* Scenario B                                                              *)

\* C18: on scenario B the ledger of remaining working days of the part-time worker
\* (20 hours a week, free day Sunday, six working days) starts at 6, and the shifts
\* of that worker in the returned week add up to 20 hours, within 0.1 hours
ScenarioBOnTarget ==
    (pc = "done" /\ scenario = 10) =>
        \A k \in DOMAIN pharmacists :
            pharmacists[k].weeklyHours < 40 =>
                /\ initialWorkingDaysRemaining[pharmacists[k].id] = 6
                /\ Abs(BookedMinutes(schedule.shifts, pharmacists[k].id)
                       - pharmacists[k].weeklyHours * 60) <= 6

-----------------------------------------------------------------------------
(* Pattern usage of a worker over the week                                 *)

\* the days of the week on which the worker has a shift of the pattern
PatternDays(list, id, patternId) ==
    {list[i].date : i \in {j \in DOMAIN list :
                              list[j].pharmacistId = id /\ list[j].patternId = patternId}}

\* no two patterns whose usage counts by the worker differ by more than 1
UsageWithinOne(list, id) ==
    \A p \in PatternIds, q \in PatternIds :
        Cardinality(PatternDays(list, id, p)) - Cardinality(PatternDays(list, id, q)) <= 1

\* C16: in a week built by the rotation path for rules without staffing requirement
\* (so that none is ever unmet), the per-pattern usage counts of every full-time
\* worker without fixed pattern differ by at most 1
PatternUsageBalanced ==
    (pc = "done" /\ resolver.best # <<>> /\ pharmacyRules.staffingRequirements = <<>>) =>
        \A k \in DOMAIN pharmacists :
            (/\ pharmacists[k].isActive
             /\ pharmacists[k].weeklyHours >= 40
             /\ pharmacists[k].fixedDayPatterns = <<>>) =>
                UsageWithinOne(schedule.shifts, pharmacists[k].id)

-----------------------------------------------------------------------------
(* The hours ledger of the rotation path                                   *)

\* C20: after every day of the rotation path the ledger of remaining hours of each
\* worker is weeklyHours less the duration of the worker's shifts created so far
LedgerMatchesShifts ==
    pc \in {"rotation", "rotated"} =>
        \A k \in DOMAIN activePharmacists :
            rotation.weeklyHours[activePharmacists[k].id]
                = activePharmacists[k].weeklyHours * 60
                  - BookedMinutes(rotation.shifts, activePharmacists[k].id)

-----------------------------------------------------------------------------
(* The hours requested for a part-time worker                              *)

\* the part-time workers createShiftAssignments places on the day about to be generated
PartTimeToday ==
    IF pc = "rotation" /\ dayIndex < Len(workdays)
    THEN LET availablePharmacists ==
                 getAvailablePharmacists(dayNames[dayIndex + 1], weekNumber,
                                         rotation.weeklyHours)
         IN  IF Len(availablePharmacists) < 3 THEN {}
             ELSE {ph \in Range(availablePharmacists) : ph.weeklyHours < 40}
    ELSE {}

\* what the rule gives for the worker in the current state of the two ledgers
StatedToday(ph) ==
    statedHours(ph, rotation.weeklyHours[ph.id], remainingWorkingDaysOf(rotation, ph))

\* what createShiftAssignments requests for the worker in the current state
RequestedToday(ph) ==
    hoursToAssignToday(ph, rotation.weeklyHours[ph.id],
                       remainingWorkingDaysOf(rotation, ph))

-----------------------------------------------------------------------------
(* The coverage state handed from the patterns to the part-time workers    *)

\* the workers available on the day about to be generated; none when the day is skipped
AvailableToday ==
    IF pc = "rotation" /\ dayIndex < Len(workdays)
    THEN LET availablePharmacists ==
                 getAvailablePharmacists(dayNames[dayIndex + 1], weekNumber,
                                         rotation.weeklyHours)
         IN  IF Len(availablePharmacists) < 3 THEN <<>> ELSE availablePharmacists
    ELSE <<>>

\* the pattern loops of the day about to be generated, at their end
PatternsToday ==
    patternsAssigned(SelectSeq(AvailableToday, LAMBDA p : p.weeklyHours >= 40),
                     rotation.patternRotationTracker, dayNames[dayIndex + 1],
                     rotation.pharmacistPatternUsage)

\* the coverage state the part-time workers of that day are placed with
CoverageConsulted ==
    coverageOfAssignments(createCoverageTracker,
                          fullTimeResult(PatternsToday).assignments)

\* full-time workers got a pattern today and part-time workers follow
PartTimeFollowsPatterns ==
    /\ PartTimeToday # {}
    /\ pharmacyRules.fixedShiftPatterns # <<>>
    /\ \E i \in DOMAIN AvailableToday : AvailableToday[i].weeklyHours >= 40

\* C22: the coverage state consulted for the part-time workers of a day is the one the
\* assignment of patterns left for that day, each chosen pattern counted once
CoverageStateHandedOn ==
    PartTimeFollowsPatterns => CoverageConsulted = PatternsToday.coverageTracker

-----------------------------------------------------------------------------
(* The Hour Balancer: the choice among the trim options of a day           *)

\* a round of the while loop of the balancer is about to run
RoundPending ==
    /\ pc = "balance"
    /\ balance.inLoop
    /\ balanceContinues(balance.remainingExtra, balance.processedDays,
                        Len(workingDaysOf(shifts, partTimePharmacists[balance.i].id)))

RoundWorker == partTimePharmacists[balance.i]

RoundDays == workingDaysOf(shifts, RoundWorker.id)

RoundHours == balance.remainingExtra \div daysLeft(shifts, balance)

\* the state of the round when it comes to its k-th day
RoundBefore(k) ==
    balanceRound([list |-> shifts, remainingExtra |-> balance.remainingExtra,
                  processedDays |-> balance.processedDays],
                 RoundWorker, SubSeq(RoundDays, 1, k - 1), RoundHours)

DayShiftsOf(k) == indexesOf(RoundBefore(k).list, RoundWorker.id, RoundDays[k])

DayOptions(k) ==
    removalOptions(RoundBefore(k).list, DayShiftsOf(k), RoundHours,
                   RoundBefore(k).remainingExtra)

\* the k-th day of the round is one the balancer tries to trim
DayTried(k) ==
    /\ RoundDays[k] \notin RoundBefore(k).processedDays
    /\ RoundBefore(k).remainingExtra > 6
    /\ hoursOf(RoundBefore(k).list, DayShiftsOf(k)) - RoundHours >= 240

\* the warnings of the day once option j of the k-th day is applied
OptionWarnings(k, j) ==
    Len(warningsFor(applyOption(RoundBefore(k).list, DayOptions(k)[j]), weekStart,
                    RoundDays[k]))

\* the reduction option j of the k-th day achieves, at most what the round asks for
OptionReduction(k, j) ==
    Min(hoursOf(RoundBefore(k).list, DayShiftsOf(k))
          - hoursOf(applyOption(RoundBefore(k).list, DayOptions(k)[j]), DayShiftsOf(k)),
        RoundHours)

\* the option the balancer applies on the k-th day, 0 when it applies none
OptionTaken(k) ==
    chooseOption(RoundBefore(k).list, DayOptions(k), 1, DayShiftsOf(k), RoundDays[k],
                 hoursOf(RoundBefore(k).list, DayShiftsOf(k)), RoundHours, NoOption).option

\* C23: on each day it trims the balancer applies the option with the fewest warnings,
\* the largest reduction among those; it applies one that leaves warnings only when no
\* option with a positive reduction is free of warnings
BestOptionApplied ==
    RoundPending =>
        \A k \in DOMAIN RoundDays :
            (DayTried(k) /\ DayOptions(k) # <<>>) =>
                /\ OptionTaken(k) > 0
                /\ \A j \in DOMAIN DayOptions(k) :
                      \/ OptionWarnings(k, OptionTaken(k)) < OptionWarnings(k, j)
                      \/ /\ OptionWarnings(k, OptionTaken(k)) = OptionWarnings(k, j)
                         /\ OptionReduction(k, OptionTaken(k)) >= OptionReduction(k, j)

\* a day on which the options differ in their warnings and one of them is applied
OptionsCompared ==
    /\ RoundPending
    /\ \E k \in DOMAIN RoundDays :
          /\ DayTried(k)
          /\ OptionTaken(k) > 0
          /\ \E i, j \in DOMAIN DayOptions(k) : OptionWarnings(k, i) # OptionWarnings(k, j)

-----------------------------------------------------------------------------
(* The Hour Balancer: the length of a trimmed sub-shift                    *)

\* the shift the option applied on the k-th day of the round edits, as it is afterwards
ShiftTrimmed(k) ==
    applyOption(RoundBefore(k).list, DayOptions(k)[OptionTaken(k)])
        [DayOptions(k)[OptionTaken(k)].shift]

\* C24: every sub-shift the balancer trims lasts at least 2 hours afterwards, whichever
\* of the four options is applied and also when the new start is clamped
TrimmedShiftKeepsTwoHours ==
    RoundPending =>
        \A k \in DOMAIN RoundDays :
            (DayTried(k) /\ OptionTaken(k) > 0) => Minutes(ShiftTrimmed(k)) >= 120

-----------------------------------------------------------------------------
(* The Hour Balancer: the hours left on a day                              *)

\* the minutes the worker of the round has on the k-th day before it is trimmed
DayTotalBefore(k) == hoursOf(RoundBefore(k).list, DayShiftsOf(k))

\* the minutes the worker of the round has on the k-th day after the round
DayTotalAfter(k) == hoursOf(RoundBefore(k + 1).list, DayShiftsOf(k))

\* C25: the balancer never brings a part-time worker's day below 4 hours: a day of at
\* least 4 hours keeps at least 4 hours, and a day that would fall below is not touched
DayKeepsFourHours ==
    RoundPending =>
        \A k \in DOMAIN RoundDays :
            /\ DayTotalBefore(k) >= 240 => DayTotalAfter(k) >= 240
            /\ DayTotalBefore(k) - RoundHours < 240 =>
                  RoundBefore(k + 1).list = RoundBefore(k).list

-----------------------------------------------------------------------------
(* The Hour Balancer: what it leaves alone                                 *)

\* a shift record with other clock times
SameButTimes(new, old) ==
    [new EXCEPT !.startTime = old.startTime, !.endTime = old.endTime] = old

\* the worker of a shift is part-time and more than 0.1 hour over the weekly target
OverTarget(list, shift) ==
    \E k \in DOMAIN pharmacists :
        /\ pharmacists[k].id = shift.pharmacistId
        /\ pharmacists[k].weeklyHours < 40
        /\ extraHoursOf(list, pharmacists[k]) > 6

\* a step of the balancer keeps the workers and the shift records, and only moves the
\* start or the end of shifts of a part-time worker over target, never lengthening one
BalancerFrame ==
    pc = "balance" =>
        /\ pharmacists' = pharmacists
        /\ Len(shifts') = Len(shifts)
        /\ \A i \in DOMAIN shifts :
              /\ SameButTimes(shifts'[i], shifts[i])
              /\ shifts'[i] # shifts[i] =>
                    /\ OverTarget(shifts, shifts[i])
                    /\ Minutes(shifts'[i]) <= Minutes(shifts[i])

\* C26: the balancer changes only start and end times of shifts of part-time workers
\* more than 0.1 hour over their target; it adds or removes no shift, changes no
\* worker, date, type or pattern of a shift, leaves the shifts of full-time workers and
\* the workers themselves alone, and lengthens no shift
BalancerOnlyTrims == [][BalancerFrame]_vars

\* the balancer has moved the start or the end of a shift of the worker it is on
BalancerHasTrimmed ==
    /\ pc = "balance"
    /\ balance.inLoop
    /\ balance.processedDays # {}
    /\ \E i \in DOMAIN shifts :
          /\ shifts[i].pharmacistId = partTimePharmacists[balance.i].id
          /\ patternById(shifts[i].patternId) # <<>>
          /\ shifts[i] \notin Range(patternShifts(shifts[i].pharmacistId, shifts[i].date,
                                                  patternById(shifts[i].patternId)[1]))

-----------------------------------------------------------------------------
(* Shifts and the opening hours                                            *)

\* every sub-shift of every pattern lies within the opening hours
PatternsWithinOpeningHours ==
    \A i \in DOMAIN pharmacyRules.fixedShiftPatterns :
        LET pattern == pharmacyRules.fixedShiftPatterns[i]
        IN  /\ timeToMinutes(pharmacyRules.openingTime)
                 <= timeToMinutes(pattern.morningShift.startTime)
            /\ timeToMinutes(pattern.morningShift.startTime)
                 <= timeToMinutes(pattern.morningShift.endTime)
            /\ timeToMinutes(pattern.morningShift.endTime)
                 <= timeToMinutes(pattern.afternoonShift.startTime)
            /\ timeToMinutes(pattern.afternoonShift.startTime)
                 <= timeToMinutes(pattern.afternoonShift.endTime)
            /\ timeToMinutes(pattern.afternoonShift.endTime)
                 <= timeToMinutes(pharmacyRules.closingTime)

\* C27: when the patterns lie within the opening hours, every shift of a generated
\* schedule starts at or after the opening time and ends at or before the closing time
ShiftsWithinOpeningHours ==
    (pc = "done" /\ PatternsWithinOpeningHours) =>
        \A i \in DOMAIN schedule.shifts :
            /\ timeToMinutes(schedule.shifts[i].startTime)
                 >= timeToMinutes(pharmacyRules.openingTime)
            /\ timeToMinutes(schedule.shifts[i].endTime)
                 <= timeToMinutes(pharmacyRules.closingTime)

-----------------------------------------------------------------------------
(* The working days left to a part-time worker                             *)

\* the days of the week being built on which the worker has a shift
DaysAssigned(id) ==
    {rotation.shifts[i].date : i \in {j \in DOMAIN rotation.shifts :
                                         rotation.shifts[j].pharmacistId = id}}

\* C28: in the rotation path the counter of remaining working days of a part-time worker
\* is the number of days, today included, on which the worker is still to be assigned:
\* it goes down by one with each day assigned, is at least 1 on a day the worker is
\* assigned, and has reached 0 after the last one
WorkingDaysCounterExact ==
    pc \in {"rotation", "rotated"} =>
        \A k \in DOMAIN partTimePharmacists :
            LET ph == partTimePharmacists[k]
                left == rotation.partTimeWorkingDaysRemaining[ph.id]
            IN  /\ left = workingDaysPerWeek(ph) - Cardinality(DaysAssigned(ph.id))
                /\ ph \in PartTimeToday => left >= 1
                /\ dayIndex = Len(workdays) => left = 0

-----------------------------------------------------------------------------
(* The pattern usage kept by the first pass                                *)

\* the days of the week so far on which a worker has a shift of a pattern
DaysWithPattern(id, pid) ==
    {shifts[i].date : i \in {j \in DOMAIN shifts : shifts[j].pharmacistId = id /\ shifts[j].patternId = pid}}

\* C29: once a day of the first pass is committed, patternUsage[worker][pattern]
\* is the number of days so far this week on which the worker was assigned the
\* pattern, a morning and afternoon pair counting once, whatever the number of
\* retries and whether the assignment was fixed or rotated
PatternUsageCountsDays ==
    (pc = "day" /\ dayIndex > 0) =>
        \A id \in DOMAIN patternUsage : \A pid \in DOMAIN patternUsage[id] :
            patternUsage[id][pid] = Cardinality(DaysWithPattern(id, pid))

-----------------------------------------------------------------------------
(* The schedules the admin page stores                                     *)

\* the stored schedules of one week
WeekOf(list, w) == SelectSeq(list, LAMBDA s : s.weekStart = w)

\* the weeks whose stored schedules a step changes
ChangedWeeks == {w \in WeekStarts : WeekOf(schedules', w) # WeekOf(schedules, w)}

AdminPageStep ==
    /\ \A w \in WeekStarts : Len(WeekOf(schedules', w)) <= 1
    /\ \A s \in Range(schedules') : s.weekStart \in WeekStarts
    /\ (pc = "done" /\ pc' = "idle") =>
          /\ WeekOf(schedules', weekStart) = <<schedule>>
          /\ Len(schedules') = IF WeekOf(schedules, weekStart) # <<>>
                               THEN Len(schedules) ELSE Len(schedules) + 1
          /\ ChangedWeeks \subseteq {weekStart}
    /\ (pc = "idle" /\ pc' = "idle") => Cardinality(ChangedWeeks) <= 1

\* C30: generating a schedule for the viewed week replaces the stored schedule with
\* the same weekStart and otherwise appends one; after every generate, clear-week
\* and manual-edit operation the stored list holds at most one schedule per
\* weekStart, and each operation leaves the schedules of all other weeks unchanged
StoredWeeksKept == [][AdminPageStep]_vars

=============================================================================
